---- MODULE Spec2Model ----
(***************************************************************************)
(* A model of the flow/assertion subsystem of ConversationalAgentTester:   *)
(* the flow parser (json_parser.py, imported by the other files under the  *)
(* module name flow_json_parser), the assertion validator                  *)
(* (assertion_validator.py) and the step-execution controller              *)
(* (dialogflow_conversation_engine.py).                                    *)
(*                                                                         *)
(* Python values are tagged records [t |-> type, v |-> payload]:           *)
(*   none  <<>>            bool  TRUE/FALSE        num  an integer          *)
(*   str   a tuple of one-character strings; a run of characters that no   *)
(*         operation of the model looks into may stand as one element      *)
(*   list  a tuple of values                                               *)
(*   dict  a tuple of <<key, value>> pairs in insertion order, the keys    *)
(*         TLA+ strings                                                    *)
(* Numbers are Python ints; a confidence of 0.85 is written 85.            *)
(***************************************************************************)
EXTENDS Integers, Sequences, FiniteSets, TLC

VARIABLES
    flow,               \* the FlowDefinition handed to execute_flow
    use_tts,            \* DialogflowConversationEngine.use_tts
    pc,                 \* position of the run inside execute_flow
    step_idx,           \* index of the step the loop is at (1-based)
    flow_result,        \* the flow_result dictionary of execute_flow
    dialogflow_result,  \* what detect_intent returned for the current step
    audio_files,        \* what _generate_step_audio returned for the step
    exc,                \* the exception in flight, "" when there is none
    session_log,        \* calls made on the session manager, in order
    detect_calls,       \* the calls of detect_intent, in order: the step index
                        \* and whether the call raised
    cmp,                \* one call of _compare_values: arguments and outcome
    flow_dict,          \* the dictionary handed to parse_flow_dict
    parse_result,       \* outcome of parse_flow_dict
    merge,              \* the arguments of merge_flows and its result
    extract,            \* the arguments of _extract_field_value and its result
    other               \* the locals of a second run of execute_flow that is
                        \* suspended while the first one runs

vars == <<flow, use_tts, pc, step_idx, flow_result, dialogflow_result,
          audio_files, exc, session_log, detect_calls, cmp, flow_dict,
          parse_result, merge, extract, other>>

(***************************************************************************)
(* Bounds of the model.                                                    *)
(***************************************************************************)
MaxNum == 2
MaxListLen == 1
MaxSteps == 2
MaxMessages == 2

(***************************************************************************)
(* Python values.                                                          *)
(***************************************************************************)
PyNone == [t |-> "none", v |-> <<>>]
PyBool(b) == [t |-> "bool", v |-> b]
PyNum(n) == [t |-> "num", v |-> n]
PyStr(s) == [t |-> "str", v |-> s]
PyList(xs) == [t |-> "list", v |-> xs]
PyDict(kv) == [t |-> "dict", v |-> kv]

IsNumeric(x) == x.t \in {"num", "bool"}
NumVal(x) == IF x.t = "bool" THEN (IF x.v THEN 1 ELSE 0) ELSE x.v

\* Python truthiness: `if x`, `not x`, `x or y`.
Truthy(x) ==
    CASE x.t = "none" -> FALSE
      [] x.t = "bool" -> x.v
      [] x.t = "num" -> x.v # 0
      [] OTHER -> Len(x.v) > 0

\* `k in d`, d.get(k, default)
DictHas(d, k) == \E i \in 1..Len(d.v) : d.v[i][1] = k
DictGet(d, k, default) ==
    IF DictHas(d, k)
    THEN d.v[CHOOSE i \in 1..Len(d.v) : d.v[i][1] = k][2]
    ELSE default

\* Python ==
RECURSIVE PyEq(_, _)
PyEq(a, b) ==
    CASE IsNumeric(a) /\ IsNumeric(b) -> NumVal(a) = NumVal(b)
      [] a.t # b.t -> FALSE
      [] a.t = "none" -> TRUE
      [] a.t = "str" -> a.v = b.v
      [] a.t = "list" ->
            /\ Len(a.v) = Len(b.v)
            /\ \A i \in 1..Len(a.v) : PyEq(a.v[i], b.v[i])
      [] a.t = "dict" ->
            /\ Len(a.v) = Len(b.v)
            /\ \A i \in 1..Len(a.v) :
                   /\ DictHas(b, a.v[i][1])
                   /\ PyEq(a.v[i][2], DictGet(b, a.v[i][1], PyNone))

\* `x in seq` for a list or tuple
PyIn(x, xs) == \E i \in 1..Len(xs) : PyEq(xs[i], x)

(***************************************************************************)
(* Text: str.lower(), substring test, str() and repr().                    *)
(***************************************************************************)
LowerMap ==
    [A |-> "a", B |-> "b", C |-> "c", D |-> "d", E |-> "e", F |-> "f",
     G |-> "g", H |-> "h", I |-> "i", J |-> "j", K |-> "k", L |-> "l",
     M |-> "m", N |-> "n", O |-> "o", P |-> "p", Q |-> "q", R |-> "r",
     S |-> "s", T |-> "t", U |-> "u", V |-> "v", W |-> "w", X |-> "x",
     Y |-> "y", Z |-> "z"]

LowerChar(c) == IF c \in DOMAIN LowerMap THEN LowerMap[c] ELSE c
Lower(s) == [i \in 1..Len(s) |-> LowerChar(s[i])]

\* `needle in hay` for two strings
IsSubstr(needle, hay) ==
    \E i \in 0..(Len(hay) - Len(needle)) :
        SubSeq(hay, i + 1, i + Len(needle)) = needle

StartsWith(hay, prefix) ==
    /\ Len(prefix) <= Len(hay)
    /\ SubSeq(hay, 1, Len(prefix)) = prefix

DigitChars == <<"0", "1", "2", "3", "4", "5", "6", "7", "8", "9">>
IsDigit(c) == \E d \in 1..10 : DigitChars[d] = c
DigitVal(c) == (CHOOSE d \in 1..10 : DigitChars[d] = c) - 1

RECURSIVE NatChars(_)
NatChars(n) ==
    IF n < 10 THEN <<DigitChars[n + 1]>>
    ELSE NatChars(n \div 10) \o <<DigitChars[(n % 10) + 1]>>

IntChars(n) == IF n < 0 THEN <<"-">> \o NatChars(0 - n) ELSE NatChars(n)

RECURSIVE PyRepr(_)
RECURSIVE ReprItems(_, _)
ReprItems(xs, isDict) ==
    IF Len(xs) = 0 THEN <<>>
    ELSE LET head == IF isDict
                     THEN <<"'", xs[1][1], "'", ":", " ">> \o PyRepr(xs[1][2])
                     ELSE PyRepr(xs[1])
         IN  IF Len(xs) = 1 THEN head
             ELSE head \o <<",", " ">> \o ReprItems(Tail(xs), isDict)
PyRepr(x) ==
    CASE x.t = "none" -> <<"N", "o", "n", "e">>
      [] x.t = "bool" -> IF x.v THEN <<"T", "r", "u", "e">>
                         ELSE <<"F", "a", "l", "s", "e">>
      [] x.t = "num" -> IntChars(x.v)
      [] x.t = "str" -> <<"'">> \o x.v \o <<"'">>
      [] x.t = "list" -> <<"[">> \o ReprItems(x.v, FALSE) \o <<"]">>
      [] x.t = "dict" -> <<"{">> \o ReprItems(x.v, TRUE) \o <<"}">>

\* str(x)
PyStrOf(x) == IF x.t = "str" THEN x.v ELSE PyRepr(x)

RECURSIVE DigitsVal(_)
DigitsVal(s) ==
    IF Len(s) = 0 THEN 0
    ELSE DigitsVal(SubSeq(s, 1, Len(s) - 1)) * 10 + DigitVal(s[Len(s)])

\* float(x): [raised, value]. A str converts when it is a non-empty run of
\* digits (the texts of this model hold no sign, point, exponent or blank).
FloatOf(x) ==
    CASE IsNumeric(x) -> [raised |-> FALSE, value |-> NumVal(x)]
      [] x.t = "str" /\ Len(x.v) > 0 /\ (\A i \in 1..Len(x.v) : IsDigit(x.v[i])) ->
            [raised |-> FALSE, value |-> DigitsVal(x.v)]
      [] OTHER -> [raised |-> TRUE, value |-> 0]

(***************************************************************************)
(* The enumerations of json_parser.py.                                     *)
(***************************************************************************)
\* Member name -> value, as ValidationOperator declares them.
ValidationOperator ==
    [EQUALS |-> "equals", CONTAINS |-> "contains", GREATER_THAN |-> "gt",
     LESS_THAN |-> "lt", GREATER_EQUAL |-> "gte", LESS_EQUAL |-> "lte",
     REGEX_MATCH |-> "regex", NOT_EQUALS |-> "not_equals", IN_LIST |-> "in"]

AssertionLevel ==
    [CRITICAL |-> "critical", ERROR |-> "error", WARNING |-> "warning"]

\* ValidationOperator.<name>: an attribute that is no member raises
\* AttributeError.
HasOperator(name) == name \in DOMAIN ValidationOperator

(***************************************************************************)
(* AssertionValidator._compare_values.  The body of the try block returns  *)
(* [raised, value]; raised stands for an exception leaving the block.  The *)
(* elif chain is evaluated top to bottom, and each test                    *)
(* `operator == ValidationOperator.X` first looks X up on the enumeration. *)
(* re.match is modelled for patterns without metacharacters: a prefix test.*)
(***************************************************************************)
Returned(b) == [raised |-> FALSE, value |-> b]
Raised == [raised |-> TRUE, value |-> FALSE]

ContainsAll(actual, expected) ==
    IF expected.t # "list" THEN Returned(FALSE)
    ELSE IF actual.t = "str"
    THEN Returned(\A i \in 1..Len(expected.v) :
             IsSubstr(Lower(PyStrOf(expected.v[i])), Lower(actual.v)))
    ELSE IF actual.t = "list"
    THEN Returned(\A i \in 1..Len(expected.v) : PyIn(expected.v[i], actual.v))
    ELSE Returned(FALSE)

ContainsAny(actual, expected) ==
    IF expected.t # "list" THEN Returned(FALSE)
    ELSE IF actual.t = "str"
    THEN Returned(\E i \in 1..Len(expected.v) :
             IsSubstr(Lower(PyStrOf(expected.v[i])), Lower(actual.v)))
    ELSE IF actual.t = "list"
    THEN Returned(\E i \in 1..Len(expected.v) : PyIn(expected.v[i], actual.v))
    ELSE Returned(FALSE)

\* float(actual) <op> float(expected)
NumericCompare(actual, expected, op) ==
    LET a == FloatOf(actual)
        e == FloatOf(expected)
    IN  IF a.raised \/ e.raised THEN Raised
        ELSE Returned(CASE op = "GREATER_THAN" -> a.value > e.value
                        [] op = "LESS_THAN" -> a.value < e.value
                        [] op = "GREATER_EQUAL" -> a.value >= e.value
                        [] op = "LESS_EQUAL" -> a.value <= e.value)

CompareTry(actual, expected, operator) ==
    IF operator = "EQUALS" THEN Returned(PyEq(actual, expected))
    ELSE IF operator = "NOT_EQUALS" THEN Returned(~PyEq(actual, expected))
    ELSE IF operator = "CONTAINS"
    THEN IF actual.t = "str"
         THEN Returned(IsSubstr(Lower(PyStrOf(expected)), Lower(actual.v)))
         ELSE IF actual.t = "list" THEN Returned(PyIn(expected, actual.v))
         ELSE Returned(FALSE)
    ELSE IF ~HasOperator("CONTAINS_ALL") THEN Raised
    ELSE IF operator = "CONTAINS_ALL" THEN ContainsAll(actual, expected)
    ELSE IF ~HasOperator("CONTAINS_ANY") THEN Raised
    ELSE IF operator = "CONTAINS_ANY" THEN ContainsAny(actual, expected)
    ELSE IF operator \in {"GREATER_THAN", "LESS_THAN", "GREATER_EQUAL", "LESS_EQUAL"}
    THEN NumericCompare(actual, expected, operator)
    ELSE IF operator = "REGEX_MATCH"
    THEN IF actual.t = "str"
         THEN Returned(StartsWith(actual.v, PyStrOf(expected)))
         ELSE Returned(FALSE)
    ELSE IF operator = "IN_LIST"
    THEN IF expected.t = "list" THEN Returned(PyIn(actual, expected.v))
         ELSE Returned(FALSE)
    ELSE Returned(FALSE)

\* What the except clause makes of the outcome of the try block.
CompareExceptPropagates(r) == r

CompareExcept(r) == IF r.raised THEN Returned(FALSE) ELSE r

_compare_values(actual, expected, operator) ==
    CompareExcept(CompareTry(actual, expected, operator))

(***************************************************************************)
(* Field paths.  A path is the tuple of its tokens: ".", "[", "]" and the  *)
(* maximal runs of other characters between them, each run one TLA+        *)
(* string ("response_messages[*].text" is                                  *)
(* <<"response_messages", "[", "*", "]", ".", "text">>).  An index is one  *)
(* digit.  KeyChars gives the characters of the dictionary keys that are   *)
(* turned into text; any other key counts as one opaque character.         *)
(***************************************************************************)
KeyChars ==
    [name |-> <<"n", "a", "m", "e">>, email |-> <<"e", "m", "a", "i", "l">>]

CharsOf(k) == IF k \in DOMAIN KeyChars THEN KeyChars[k] ELSE <<k>>

IsPunct(tok) == tok \in {".", "[", "]"}

\* AssertionValidator._parse_array_path: re.findall of
\* ([^\[\]\.]+)|\[(\*|\d+|)\] over the path, one segment per match.
RECURSIVE _parse_array_path(_)
_parse_array_path(toks) ==
    IF Len(toks) = 0 THEN <<>>
    ELSE IF ~IsPunct(toks[1])
    THEN <<[type |-> "field", name |-> toks[1]]>>
             \o _parse_array_path(Tail(toks))
    ELSE IF toks[1] = "[" /\ Len(toks) >= 2 /\ toks[2] = "]"
    THEN <<[type |-> "array_wildcard"]>>
             \o _parse_array_path(SubSeq(toks, 3, Len(toks)))
    ELSE IF toks[1] = "[" /\ Len(toks) >= 3 /\ toks[3] = "]" /\ toks[2] = "*"
    THEN <<[type |-> "array_wildcard"]>>
             \o _parse_array_path(SubSeq(toks, 4, Len(toks)))
    ELSE IF toks[1] = "[" /\ Len(toks) >= 3 /\ toks[3] = "]" /\ IsDigit(toks[2])
    THEN <<[type |-> "array_index", index_value |-> DigitVal(toks[2])]>>
             \o _parse_array_path(SubSeq(toks, 4, Len(toks)))
    ELSE _parse_array_path(Tail(toks))

\* A wildcard that keeps the elements of lists only.
RECURSIVE ApplySegmentListsOnly(_, _)
ApplySegmentListsOnly(segment, values) ==
    IF Len(values) = 0 THEN <<>>
    ELSE LET value == values[1]
             rest == ApplySegmentListsOnly(segment, Tail(values))
         IN  CASE segment.type = "field" ->
                    IF value.t = "dict"
                          /\ DictGet(value, segment.name, PyNone).t # "none"
                    THEN <<DictGet(value, segment.name, PyNone)>> \o rest
                    ELSE rest
               [] segment.type = "array_wildcard" ->
                    IF value.t = "list" THEN value.v \o rest
                    ELSE rest
               [] segment.type = "array_index" ->
                    IF value.t = "list" /\ segment.index_value < Len(value.v)
                    THEN <<value.v[segment.index_value + 1]>> \o rest
                    ELSE rest

\* One segment applied to the working list current_values.
RECURSIVE ApplySegment(_, _)
ApplySegment(segment, values) ==
    IF Len(values) = 0 THEN <<>>
    ELSE LET value == values[1]
             rest == ApplySegment(segment, Tail(values))
         IN  CASE segment.type = "field" ->
                    IF value.t = "dict"
                          /\ DictGet(value, segment.name, PyNone).t # "none"
                    THEN <<DictGet(value, segment.name, PyNone)>> \o rest
                    ELSE rest
               [] segment.type = "array_wildcard" ->
                    IF value.t = "list" THEN value.v \o rest
                    ELSE <<value>> \o rest
               [] segment.type = "array_index" ->
                    IF value.t = "list" /\ segment.index_value < Len(value.v)
                    THEN <<value.v[segment.index_value + 1]>> \o rest
                    ELSE rest

RECURSIVE ApplySegments(_, _)
ApplySegments(segments, values) ==
    IF Len(segments) = 0 THEN values
    ELSE ApplySegments(Tail(segments), ApplySegment(segments[1], values))

\* ' '.join(str(v) for v in values if v)
RECURSIVE JoinTexts(_)
JoinTexts(values) ==
    IF Len(values) = 0 THEN <<>>
    ELSE LET rest == JoinTexts(Tail(values))
             someLater == \E i \in 2..Len(values) : Truthy(values[i])
         IN  IF ~Truthy(values[1]) THEN rest
             ELSE IF someLater THEN PyStrOf(values[1]) \o <<" ">> \o rest
             ELSE PyStrOf(values[1])

\* field_path.endswith('[*].text') alone.
EndsWithWildcardText(toks) ==
    /\ Len(toks) >= 5
    /\ SubSeq(toks, Len(toks) - 4, Len(toks)) = <<"[", "*", "]", ".", "text">>

\* field_path.endswith('.text') or field_path.endswith('[*].text')
EndsWithText(toks) ==
    /\ Len(toks) >= 2
    /\ toks[Len(toks)] = "text"
    /\ toks[Len(toks) - 1] = "."

\* The post-processing without the unwrapping of a single value.
ExtractWithoutUnwrap(data, field_path) ==
    IF Len(_parse_array_path(field_path)) = 0 THEN PyNone
    ELSE IF Len(ApplySegments(_parse_array_path(field_path), <<data>>)) = 0 THEN PyNone
    ELSE IF EndsWithText(field_path)
    THEN PyStr(Lower(JoinTexts(ApplySegments(_parse_array_path(field_path), <<data>>))))
    ELSE PyList(ApplySegments(_parse_array_path(field_path), <<data>>))

_extract_with_array_notation(data, field_path) ==
    LET segments == _parse_array_path(field_path)
        current_values == ApplySegments(segments, <<data>>)
    IN  IF Len(segments) = 0 THEN PyNone
        ELSE IF Len(current_values) = 0 THEN PyNone
        ELSE IF EndsWithText(field_path)
        THEN PyStr(Lower(JoinTexts(current_values)))
        ELSE IF Len(current_values) = 1 THEN current_values[1]
        ELSE PyList(current_values)

\* field_path.split('.'): the parts between the dots, "" for an empty part.
RECURSIVE SplitDots(_, _)
SplitDots(toks, pending) ==
    IF Len(toks) = 0 THEN <<pending>>
    ELSE IF toks[1] = "." THEN <<pending>> \o SplitDots(Tail(toks), "")
    ELSE SplitDots(Tail(toks), toks[1])

RECURSIVE WalkParts(_, _)
WalkParts(value, parts) ==
    IF Len(parts) = 0 THEN value
    ELSE IF value.t = "dict"
    THEN IF DictGet(value, parts[1], PyNone).t = "none" THEN PyNone
         ELSE WalkParts(DictGet(value, parts[1], PyNone), Tail(parts))
    ELSE IF value.t = "list" THEN value
    ELSE PyNone

_extract_simple_path(data, field_path) ==
    WalkParts(data, SplitDots(field_path, ""))

\* A table without entries.
ShortcutNone(field_path) == field_path

\* The shortcuts table of _extract_field_value.
Shortcut(field_path) ==
    IF field_path = <<"response_messages">> \/ field_path = <<"response_text">>
    THEN <<"response_messages", "[", "*", "]", ".", "text">>
    ELSE field_path

\* The extraction without the branch for the bare path parameters.
ExtractWithoutKeyList(data, field_path0) ==
    IF \E i \in 1..Len(Shortcut(field_path0)) : Shortcut(field_path0)[i] = "["
    THEN _extract_with_array_notation(data, Shortcut(field_path0))
    ELSE _extract_simple_path(data, Shortcut(field_path0))

_extract_field_value(data, field_path0) ==
    LET field_path == Shortcut(field_path0)
        params == DictGet(data, "parameters", PyDict(<<>>))
    IN  IF field_path = <<"parameters">>
        THEN IF params.t = "dict"
             THEN PyList([i \in 1..Len(params.v) |-> PyStr(CharsOf(params.v[i][1]))])
             ELSE params
        ELSE IF \E i \in 1..Len(field_path) : field_path[i] = "["
        THEN _extract_with_array_notation(data, field_path)
        ELSE _extract_simple_path(data, field_path)

(***************************************************************************)
(* AssertionValidator: _generate_default_message, _validate_rule,          *)
(* validate_step.  A ValidationRule is the record                          *)
(* [field, operator, expected_value, assertion_level, custom_message],     *)
(* operator and assertion_level the member names.  An operation that can   *)
(* raise returns a record with raised = TRUE.                              *)
(***************************************************************************)
\* Keys of the op_text dictionary literal, in the order it evaluates them.
OpTextKeys ==
    <<"EQUALS", "NOT_EQUALS", "CONTAINS", "CONTAINS_ALL", "CONTAINS_ANY",
      "GREATER_THAN", "LESS_THAN", "GREATER_EQUAL", "LESS_EQUAL",
      "REGEX_MATCH", "IN_LIST">>

\* Building the literal looks every key up on ValidationOperator.
_generate_default_message(field, actual, expected, operator, passed) ==
    IF \E i \in 1..Len(OpTextKeys) : ~HasOperator(OpTextKeys[i])
    THEN [raised |-> TRUE, message |-> <<>>]
    ELSE [raised |-> FALSE,
          message |-> <<IF passed THEN "pass" ELSE "fail", field, operator,
                        PyRepr(expected), PyRepr(actual)>>]

\* The AssertionResult of _validate_rule, or the AttributeError of the
\* default message.
AssertionOf(rule, actual_value, passed, default) ==
    IF ~Truthy(rule.custom_message) /\ default.raised
    THEN [raised |-> TRUE, result |-> <<>>]
    ELSE [raised |-> FALSE,
          result |->
             [rule |-> rule,
              passed |-> passed,
              actual_value |-> actual_value,
              expected_value |-> rule.expected_value,
              message |-> IF Truthy(rule.custom_message) THEN rule.custom_message
                          ELSE default.message,
              assertion_level |-> rule.assertion_level]]

Compared(rule, actual_value, passed) ==
    AssertionOf(rule, actual_value, passed,
                _generate_default_message(rule.field, actual_value,
                                          rule.expected_value, rule.operator, passed))

Extracted(rule, actual_value) ==
    Compared(rule, actual_value,
             _compare_values(actual_value, rule.expected_value, rule.operator).value)

_validate_rule(step_result, rule) ==
    Extracted(rule, _extract_field_value(step_result, rule.field))

\* The counters of validate_step after one AssertionResult.
TallyStopsOnError(acc, result, stop_on_critical) ==
    IF result.passed THEN acc
    ELSE IF result.assertion_level = "CRITICAL"
    THEN [acc EXCEPT !.critical_failures = @ + 1,
                     !.should_stop = @ \/ stop_on_critical]
    ELSE IF result.assertion_level = "ERROR"
    THEN [acc EXCEPT !.errors = @ + 1, !.should_stop = @ \/ stop_on_critical]
    ELSE [acc EXCEPT !.warnings = @ + 1]

Tally(acc, result, stop_on_critical) ==
    IF result.passed THEN acc
    ELSE IF result.assertion_level = "CRITICAL"
    THEN [acc EXCEPT !.critical_failures = @ + 1,
                     !.should_stop = @ \/ stop_on_critical]
    ELSE IF result.assertion_level = "ERROR"
    THEN [acc EXCEPT !.errors = @ + 1]
    ELSE [acc EXCEPT !.warnings = @ + 1]

\* The for loop of validate_step over the rules that are left; r is the
\* outcome of _validate_rule on the first of them.
RECURSIVE ValidateLoop(_, _, _, _)
\* The loop left as soon as the stop decision is taken.
LeftOnStop(step_result, rules, stop_on_critical, acc) ==
    IF acc.should_stop THEN acc
    ELSE ValidateLoop(step_result, Tail(rules), stop_on_critical, acc)

LoopBodyShortCircuit(step_result, rules, stop_on_critical, acc, r) ==
    IF r.raised THEN [acc EXCEPT !.raised = TRUE]
    ELSE LeftOnStop(step_result, rules, stop_on_critical,
             Tally([acc EXCEPT !.assertions = Append(@, r.result)],
                   r.result, stop_on_critical))

LoopBody(step_result, rules, stop_on_critical, acc, r) ==
    IF r.raised THEN [acc EXCEPT !.raised = TRUE]
    ELSE ValidateLoop(step_result, Tail(rules), stop_on_critical,
             Tally([acc EXCEPT !.assertions = Append(@, r.result)],
                   r.result, stop_on_critical))

ValidateLoop(step_result, rules, stop_on_critical, acc) ==
    IF Len(rules) = 0 THEN acc
    ELSE LoopBody(step_result, rules, stop_on_critical, acc,
                  _validate_rule(step_result, rules[1]))

StepPassedCountsWarnings(critical_failures, errors, warnings) ==
    critical_failures = 0 /\ errors = 0 /\ warnings = 0

StepPassed(critical_failures, errors, warnings) ==
    critical_failures = 0 /\ errors = 0

\* Lines 97-110: the StepValidationResult built from the counters.
StepValidationResult(step_result, acc) ==
    IF acc.raised THEN [raised |-> TRUE]
    ELSE [raised |-> FALSE,
          step_id |-> DictGet(step_result, "step_id",
                              PyStr(<<"u", "n", "k", "n", "o", "w", "n">>)),
          passed |-> StepPassed(acc.critical_failures, acc.errors, acc.warnings),
          assertions |-> acc.assertions,
          critical_failures |-> acc.critical_failures,
          errors |-> acc.errors,
          warnings |-> acc.warnings,
          execution_time_ms |-> DictGet(step_result, "execution_time_ms", PyNum(0)),
          should_stop |-> acc.should_stop]

validate_step(step_result, validation_rules, stop_on_critical) ==
    StepValidationResult(step_result,
        ValidateLoop(step_result, validation_rules, stop_on_critical,
            [raised |-> FALSE, assertions |-> <<>>,
             critical_failures |-> 0, errors |-> 0, warnings |-> 0,
             should_stop |-> FALSE]))

(***************************************************************************)
(* AssertionValidator.generate_report.  success_rate is the float          *)
(* passed_steps / total_steps * 100, kept as the exact fraction            *)
(* [num, den]; the int 0 of the empty list is [0, 1].                      *)
(***************************************************************************)
\* sum(r.<field> for r in step_results)
RECURSIVE SumField(_, _)
SumField(xs, field) ==
    IF Len(xs) = 0 THEN 0 ELSE xs[1][field] + SumField(Tail(xs), field)

\* sum(1 for r in xs if r.passed)
RECURSIVE CountPassed(_)
CountPassed(xs) ==
    IF Len(xs) = 0 THEN 0
    ELSE (IF xs[1].passed THEN 1 ELSE 0) + CountPassed(Tail(xs))

\* sum(len(r.assertions) ...) and sum(sum(1 for a in r.assertions if a.passed) ...)
RECURSIVE CountAssertions(_, _)
CountAssertions(xs, passedOnly) ==
    IF Len(xs) = 0 THEN 0
    ELSE (IF passedOnly THEN CountPassed(xs[1].assertions)
          ELSE Len(xs[1].assertions))
         + CountAssertions(Tail(xs), passedOnly)

\* The `for result in step_results` search for the first failure.
RECURSIVE FirstFailureLast(_)
FirstFailureLast(step_results) ==
    IF Len(step_results) = 0 THEN PyNone
    ELSE LET later == FirstFailureLast(Tail(step_results))
         IN  IF later.t # "none" THEN later
             ELSE IF ~step_results[1].passed THEN step_results[1].step_id
             ELSE PyNone

RECURSIVE FirstFailure(_)
FirstFailure(step_results) ==
    IF Len(step_results) = 0 THEN PyNone
    ELSE IF ~step_results[1].passed THEN step_results[1].step_id
    ELSE FirstFailure(Tail(step_results))

SuccessRateUnguarded(passed_steps, total_steps) ==
    [num |-> passed_steps * 100, den |-> total_steps]

SuccessRate(passed_steps, total_steps) ==
    IF total_steps > 0 THEN [num |-> passed_steps * 100, den |-> total_steps]
    ELSE [num |-> 0, den |-> 1]

_format_step_result(result) ==
    [step_id |-> result.step_id,
     passed |-> result.passed,
     execution_time_ms |-> result.execution_time_ms,
     critical_failures |-> result.critical_failures,
     errors |-> result.errors,
     warnings |-> result.warnings,
     assertions |->
        [i \in 1..Len(result.assertions) |->
            LET a == result.assertions[i]
            IN  [field |-> a.rule.field,
                 operator |-> ValidationOperator[a.rule.operator],
                 expected |-> a.expected_value,
                 actual |-> a.actual_value,
                 passed |-> a.passed,
                 message |-> a.message,
                 level |-> AssertionLevel[a.assertion_level]]]]

generate_report(step_results) ==
    LET total_steps == Len(step_results)
        passed_steps == CountPassed(step_results)
        failed_steps == total_steps - passed_steps
        total_assertions == CountAssertions(step_results, FALSE)
        passed_assertions == CountAssertions(step_results, TRUE)
    IN  [summary |->
            [total_steps |-> total_steps,
             passed_steps |-> passed_steps,
             failed_steps |-> failed_steps,
             success_rate |-> SuccessRate(passed_steps, total_steps),
             total_assertions |-> total_assertions,
             passed_assertions |-> passed_assertions,
             failed_assertions |-> total_assertions - passed_assertions,
             critical_failures |-> SumField(step_results, "critical_failures"),
             errors |-> SumField(step_results, "errors"),
             warnings |-> SumField(step_results, "warnings"),
             first_failure_step |-> FirstFailure(step_results)],
         step_details |->
            [i \in 1..Len(step_results) |-> _format_step_result(step_results[i])]]

(***************************************************************************)
(* The values the inputs are drawn from.  A value is named by a descriptor *)
(* <<kind, indexes>>: kind 0 is the scalar Scalars[indexes[1]], kind 1 the *)
(* list of the scalars at the given indexes.                               *)
(***************************************************************************)
Numbers == [i \in 1..(MaxNum + 1) |-> PyNum(i - 1)]

Scalars ==
    <<PyNone, PyBool(TRUE),
      PyStr(<<"H", "i">>), PyStr(<<"h", "i">>), PyStr(<<"1">>), PyStr(<<>>),
      PyDict(<< <<"k", PyNum(1)>> >>)>> \o Numbers

ValueNames ==
    {<<0, <<i>>>> : i \in DOMAIN Scalars}
        \cup {<<1, ixs>> : ixs \in UNION {[1..n -> DOMAIN Scalars] : n \in 0..MaxListLen}}

ValueOf(d) ==
    IF d[1] = 0 THEN Scalars[d[2][1]]
    ELSE PyList([i \in 1..Len(d[2]) |-> Scalars[d[2][i]]])

(***************************************************************************)
(* Values of the variables a specification does not use.                   *)
(***************************************************************************)
NoCompare == [called |-> FALSE]
NoRun ==
    /\ flow = <<>>
    /\ use_tts = FALSE
    /\ pc = "idle"
    /\ step_idx = 0
    /\ flow_result = <<>>
    /\ dialogflow_result = <<>>
    /\ audio_files = <<>>
    /\ exc = ""
    /\ session_log = <<>>
    /\ detect_calls = <<>>
NoParse ==
    /\ flow_dict = <<>>
    /\ parse_result = [called |-> FALSE]
NoMerge == [called |-> FALSE]
NoExtract == [called |-> FALSE]
NoOther == [run |-> 0]

(***************************************************************************)
(* SpecCompare: one call of _compare_values on drawn arguments.            *)
(***************************************************************************)
InitCompare ==
    /\ NoRun
    /\ NoParse
    /\ merge = NoMerge
    /\ extract = NoExtract
    /\ other = NoOther
    /\ \E a \in ValueNames, e \in ValueNames, op \in DOMAIN ValidationOperator :
           cmp = [called |-> FALSE, actual |-> ValueOf(a),
                  expected |-> ValueOf(e), operator |-> op]

CompareValues ==
    /\ ~cmp.called
    /\ "actual" \in DOMAIN cmp
    /\ cmp' = [cmp EXCEPT !.called = TRUE] @@
              [outcome |-> _compare_values(cmp.actual, cmp.expected, cmp.operator)]
    /\ UNCHANGED <<flow, use_tts, pc, step_idx, flow_result, dialogflow_result,
                   audio_files, exc, session_log, detect_calls, flow_dict,
                   parse_result, merge, extract, other>>

NextCompare == CompareValues

SpecCompare == InitCompare /\ [][NextCompare]_vars

(***************************************************************************)
(* DialogflowConversationEngine.execute_flow.                              *)
(*                                                                         *)
(* A FlowStep and a FlowDefinition are records with the fields of the      *)
(* dataclasses of json_parser.py.  Clock readings (execution_time_ms,      *)
(* timestamp, start_time, end_time, duration) are not modelled: the step   *)
(* record carries execution_time_ms = 0.                                   *)
(***************************************************************************)
Text_hi == PyStr(<<"h", "i">>)
Text_Hi == PyStr(<<"H", "i">>)
Text_m == PyStr(<<"m">>)
Text_text == PyStr(<<"t", "e", "x", "t">>)
Text_payload == PyStr(<<"p", "a", "y", "l", "o", "a", "d">>)

\* What detect_intent can return.  Every message carries its 'type', as the
\* Message records of the collaborator do.
TurnResults ==
    <<PyDict(<< <<"intent", Text_hi>>,
                <<"intent_confidence", PyNum(1)>>,
                <<"response_messages",
                  PyList(<<PyDict(<< <<"type", Text_text>>, <<"text", Text_Hi>> >>)>>)>>,
                <<"parameters", PyDict(<< <<"name", Text_Hi>> >>)>> >>),
      PyDict(<<>>),
      PyDict(<< <<"intent", Text_Hi>>,
                <<"intent_confidence", PyNum(2)>>,
                <<"response_messages",
                  PyList(<<PyDict(<< <<"type", Text_payload>> >>),
                           PyDict(<< <<"type", Text_text>>, <<"text", Text_hi>> >>)>>)>> >>)>>

Rule(field, operator, expected, level, message) ==
    [field |-> field, operator |-> operator, expected_value |-> expected,
     assertion_level |-> level, custom_message |-> message]

\* The rule lists a step of the drawn flows can carry.
StepRuleLists ==
    <<<<>>,
      <<Rule(<<"intent_confidence">>, "EQUALS", PyNum(1), "CRITICAL", Text_m)>>,
      <<Rule(<<"intent_confidence">>, "GREATER_EQUAL", PyNum(2), "CRITICAL", PyNone)>>,
      <<Rule(<<"intent">>, "EQUALS", Text_hi, "ERROR", Text_m),
        Rule(<<"parameters">>, "CONTAINS", PyStr(<<"n", "a", "m", "e">>), "WARNING", Text_m)>>,
      <<Rule(<<"intent">>, "NOT_EQUALS", PyNone, "WARNING", Text_m),
        Rule(<<"response_messages", "[", "0", "]", ".", "text">>, "EQUALS",
             Text_hi, "WARNING", Text_m)>>,
      <<Rule(<<"intent_confidence">>, "GREATER_EQUAL", PyNum(1), "CRITICAL", Text_m),
        Rule(<<"intent">>, "EQUALS", Text_hi, "ERROR", Text_m)>> >>

\* The global rule lists of the drawn flows.
GlobalRuleLists ==
    <<<<>>,
      <<Rule(<<"response_messages">>, "CONTAINS", Text_hi, "CRITICAL", Text_m)>> >>

StepIds == [i \in 1..(MaxSteps + 1) |-> PyStr(<<"s", DigitChars[i + 1]>>)]

\* A flow is named by the rule list and the continue_on_failure flag of each
\* of its steps: kinds[i] = <<index into StepRuleLists, flag>>.
FlowNames ==
    UNION {[1..n -> (DOMAIN StepRuleLists) \X BOOLEAN] : n \in 0..MaxSteps}

FlowOf(kinds, globals) ==
    [flow_id |-> PyStr(<<"f">>),
     flow_name |-> PyStr(<<"f">>),
     description |-> PyStr(<<>>),
     agent_id |-> PyNone,
     language_code |-> PyStr(<<"e", "n">>),
     steps |-> [i \in 1..Len(kinds) |->
                   [step_id |-> StepIds[i],
                    user_input |-> Text_hi,
                    expected_intent |-> PyNone,
                    expected_entities |-> PyDict(<<>>),
                    expected_response_contains |-> PyList(<<>>),
                    validation_rules |-> StepRuleLists[kinds[i][1]],
                    continue_on_failure |-> PyBool(kinds[i][2]),
                    timeout_seconds |-> PyNum(30),
                    metadata |-> PyDict(<<>>)]],
     global_validation_rules |-> GlobalRuleLists[globals],
     success_criteria |-> PyDict(<<>>),
     metadata |-> PyDict(<<>>)]

NoReport == <<>>

InitRun ==
    /\ NoParse
    /\ cmp = NoCompare
    /\ merge = NoMerge
    /\ extract = NoExtract
    /\ other = NoOther
    /\ \E kinds \in FlowNames, g \in DOMAIN GlobalRuleLists : flow = FlowOf(kinds, g)
    /\ use_tts \in BOOLEAN
    /\ pc = "start"
    /\ step_idx = 0
    /\ flow_result = <<>>
    /\ dialogflow_result = <<>>
    /\ audio_files = <<>>
    /\ exc = ""
    /\ session_log = <<>>
    /\ detect_calls = <<>>

Untouched == UNCHANGED <<flow, use_tts, cmp, flow_dict, parse_result, merge, extract, other>>

\* Where the for loop goes when it is at step index idx.
LoopAt(idx) == IF idx <= Len(flow.steps) THEN "loop" ELSE "finally"

\* Config.get_agent_config finds no agent: ValueError reaches the caller.
AgentNotFound ==
    /\ pc = "start"
    /\ pc' = "raised"
    /\ exc' = "Agent not found"
    /\ UNCHANGED <<step_idx, flow_result, dialogflow_result, audio_files,
                   session_log, detect_calls>>
    /\ Untouched

\* Lines 66-87: the session is created and flow_result initialised.
\* has_error says whether flow_result holds the key 'error'.
CreateSession ==
    /\ pc = "start"
    /\ session_log' = Append(session_log, "create")
    /\ flow_result' =
           [flow_id |-> flow.flow_id,
            flow_name |-> flow.flow_name,
            steps |-> <<>>,
            validation_results |-> <<>>,
            success |-> TRUE,
            stopped_early |-> FALSE,
            stop_reason |-> PyNone,
            audio_files |-> <<>>,
            error |-> PyNone,
            has_error |-> FALSE,
            validation_report |-> NoReport]
    /\ step_idx' = 1
    /\ pc' = LoopAt(1)
    /\ UNCHANGED <<dialogflow_result, audio_files, exc, detect_calls>>
    /\ Untouched

\* Line 97: the awaited detect_intent returns a result ...
DetectIntentReturns ==
    /\ pc = "loop"
    /\ detect_calls' = Append(detect_calls, [step |-> step_idx, raised |-> FALSE])
    /\ \E r \in DOMAIN TurnResults : dialogflow_result' = TurnResults[r]
    /\ pc' = "audio"
    /\ UNCHANGED <<step_idx, flow_result, audio_files, exc, session_log>>
    /\ Untouched

\* ... or raises.
DetectIntentRaises ==
    /\ pc = "loop"
    /\ detect_calls' = Append(detect_calls, [step |-> step_idx, raised |-> TRUE])
    /\ exc' = "net"
    /\ pc' = "except"
    /\ UNCHANGED <<step_idx, flow_result, dialogflow_result, audio_files,
                   session_log>>
    /\ Untouched
\* The messages _generate_step_audio iterates over.
Messages(result) == DictGet(result, "response_messages", PyList(<<>>)).v

IsTextMessage(message) == PyEq(DictGet(message, "type", PyNone), Text_text)

\* Lines 185-186: without TTS there is no audio.
GenerateStepAudioOff ==
    /\ pc = "audio"
    /\ ~use_tts
    /\ audio_files' = <<>>
    /\ pc' = "validate"
    /\ UNCHANGED <<step_idx, flow_result, dialogflow_result, exc, session_log,
                   detect_calls>>
    /\ Untouched

\* Lines 189-205: one file per text message whose rendering succeeds; a
\* failure of text_to_speech, or a text message without 'text', is swallowed.
GenerateStepAudio ==
    /\ pc = "audio"
    /\ use_tts
    /\ \E rendered \in [1..Len(Messages(dialogflow_result)) -> BOOLEAN] :
           LET msgs == Messages(dialogflow_result)
               saved(i) == /\ IsTextMessage(msgs[i])
                           /\ DictHas(msgs[i], "text")
                           /\ rendered[i]
           IN  /\ \A i \in 1..Len(msgs) : rendered[i] => saved(i)
               /\ audio_files' =
                      SelectSeq([i \in 1..Len(msgs) |-> <<step_idx, i - 1>>],
                                LAMBDA f : saved(f[2] + 1))
    /\ pc' = "validate"
    /\ UNCHANGED <<step_idx, flow_result, dialogflow_result, exc, session_log,
                   detect_calls>>
    /\ Untouched

\* Lines 105-116 and 122: the step record handed to the validator.
StepResult(step, idx, result, files) ==
    PyDict(<< <<"step_id", step.step_id>>,
              <<"step_number", PyNum(idx)>>,
              <<"user_input", step.user_input>>,
              <<"intent", DictGet(result, "intent", PyNone)>>,
              <<"intent_confidence", DictGet(result, "intent_confidence", PyNone)>>,
              <<"response_messages", DictGet(result, "response_messages", PyList(<<>>))>>,
              <<"parameters", DictGet(result, "parameters", PyDict(<<>>))>>,
              <<"current_page", DictGet(result, "current_page", PyNone)>>,
              <<"execution_time_ms", PyNum(0)>>,
              <<"audio_files", PyList([i \in 1..Len(files) |-> PyNum(files[i][2])])>> >>)

\* Lines 128-132: the rules and the stop flag handed to validate_step.
StopOnCritical(step) == ~Truthy(step.continue_on_failure)

RulesOf(step) == step.validation_rules \o flow.global_validation_rules

\* Lines 139-147: the flow_result after a validated step.
AfterValidationNoStop(fr, step, validation_result) == fr

AfterValidation(fr, step, validation_result) ==
    IF validation_result.should_stop
    THEN [fr EXCEPT !.success = FALSE,
                    !.stopped_early = TRUE,
                    !.stop_reason = <<"Critical assertion failed in step: ", step.step_id>>]
    ELSE fr

\* Lines 134-156: the validation result is recorded, the session updated and
\* the stop checked; after is the flow_result that leaves the iteration.
ContinueSameStep(after) ==
    /\ flow_result' = after
    /\ session_log' = Append(session_log, "update")
    /\ exc' = exc
    /\ step_idx' = step_idx
    /\ pc' = IF after.stopped_early THEN "finally" ELSE "loop"

Continue(after) ==
    /\ flow_result' = after
    /\ session_log' = Append(session_log, "update")
    /\ exc' = exc
    /\ IF after.stopped_early
       THEN pc' = "finally" /\ step_idx' = step_idx
       ELSE pc' = LoopAt(step_idx + 1) /\ step_idx' = step_idx + 1

\* Lines 125-134: the step record is appended, then validated.
Validated(step, recorded, validation_result) ==
    IF validation_result.raised
    THEN /\ flow_result' = recorded
         /\ exc' = "CONTAINS_ALL"
         /\ pc' = "except"
         /\ UNCHANGED <<step_idx, session_log>>
    ELSE Continue(AfterValidation(
             [recorded EXCEPT !.validation_results = Append(@, validation_result)],
             step, validation_result))

Built(step, step_result) ==
    Validated(step,
              [flow_result EXCEPT !.audio_files = @ \o audio_files,
                                  !.steps = Append(@, step_result)],
              validate_step(step_result, RulesOf(step), StopOnCritical(step)))

\* Lines 104-156: the rest of one loop iteration, which does not suspend.
ValidateStep ==
    /\ pc = "validate"
    /\ Built(flow.steps[step_idx],
             StepResult(flow.steps[step_idx], step_idx, dialogflow_result, audio_files))
    /\ UNCHANGED <<dialogflow_result, audio_files, detect_calls>>
    /\ Untouched

\* Lines 158-161: the except clause.
ExceptPropagates(fr, e) == fr

Except(fr, e) == [fr EXCEPT !.success = FALSE, !.error = e, !.has_error = TRUE]

\* An except clause after which the finally clause is not run.
HandleExceptionSkipsFinally ==
    /\ pc = "except"
    /\ flow_result' = Except(flow_result, exc)
    /\ exc' = ""
    /\ pc' = "report"
    /\ UNCHANGED <<step_idx, dialogflow_result, audio_files, session_log,
                   detect_calls>>
    /\ Untouched

HandleException ==
    /\ pc = "except"
    /\ flow_result' = Except(flow_result, exc)
    /\ exc' = ""
    /\ pc' = "finally"
    /\ UNCHANGED <<step_idx, dialogflow_result, audio_files, session_log,
                   detect_calls>>
    /\ Untouched

\* Lines 163-168: the finally clause.
Finally ==
    /\ pc = "finally"
    /\ session_log' = Append(session_log, "end")
    /\ pc' = "report"
    /\ UNCHANGED <<step_idx, flow_result, dialogflow_result, audio_files, exc,
                   detect_calls>>
    /\ Untouched

\* The success flag left as the loop set it.
OverallSuccessOfLoop(success, report) == success

\* Lines 176-178: the overall success.
OverallSuccess(success, report) ==
    IF success THEN report.summary.failed_steps = 0 ELSE success

\* Lines 170-180: the report, the overall success, and the return.
Return ==
    /\ pc = "report"
    /\ LET report == generate_report(flow_result.validation_results)
       IN  flow_result' = [flow_result EXCEPT
                              !.validation_report = report,
                              !.success = OverallSuccess(@, report)]
    /\ pc' = "done"
    /\ UNCHANGED <<step_idx, dialogflow_result, audio_files, exc, session_log,
                   detect_calls>>
    /\ Untouched

Next ==
    \/ AgentNotFound
    \/ CreateSession
    \/ DetectIntentReturns
    \/ DetectIntentRaises
    \/ GenerateStepAudioOff
    \/ GenerateStepAudio
    \/ ValidateStep
    \/ HandleException
    \/ Finally
    \/ Return

Spec == InitRun /\ [][Next]_vars

(***************************************************************************)
(* SpecPair: two runs of execute_flow on one engine, interleaved at their  *)
(* suspension points.  The variables of Spec hold the locals of the run    *)
(* that is executing, other those of the run that is suspended; the        *)
(* session manager (session_log) and use_tts belong to the engine and are  *)
(* shared.  The event loop resumes a coroutine only where the other one    *)
(* awaits: before its first statement, at the awaited detect_intent, at    *)
(* the awaited text_to_speech, or after its end.                           *)
(***************************************************************************)
\* The flows of the two runs: the steps of run 1 are a1, a2, those of run 2
\* b1, b2.
PairKinds ==
    << <<<<2, FALSE>>, <<1, FALSE>>>>,
       <<<<5, TRUE>>, <<2, TRUE>>>>,
       <<<<6, FALSE>>>> >>

RunLetters == <<"a", "b">>

PairStep(run, step, i) ==
    [step EXCEPT !.step_id = PyStr(<<RunLetters[run], DigitChars[i + 1]>>)]

PairFlowOf(run, k) ==
    [FlowOf(PairKinds[k], 1) EXCEPT
        !.steps = [i \in 1..Len(PairKinds[k]) |->
                      PairStep(run, FlowOf(PairKinds[k], 1).steps[i], i)]]

\* The locals of the coroutine that is executing.
Locals(run) ==
    [run |-> run, flow |-> flow, pc |-> pc, step_idx |-> step_idx,
     flow_result |-> flow_result, dialogflow_result |-> dialogflow_result,
     audio_files |-> audio_files, exc |-> exc, detect_calls |-> detect_calls]

InitPair ==
    /\ NoParse
    /\ cmp = NoCompare
    /\ merge = NoMerge
    /\ extract = NoExtract
    /\ use_tts \in BOOLEAN
    /\ session_log = <<>>
    /\ \E k1 \in DOMAIN PairKinds, k2 \in DOMAIN PairKinds :
           /\ flow = PairFlowOf(1, k1)
           /\ other = [run |-> 2, flow |-> PairFlowOf(2, k2), pc |-> "start",
                       step_idx |-> 0, flow_result |-> <<>>,
                       dialogflow_result |-> <<>>, audio_files |-> <<>>,
                       exc |-> "", detect_calls |-> <<>>]
    /\ pc = "start"
    /\ step_idx = 0
    /\ flow_result = <<>>
    /\ dialogflow_result = <<>>
    /\ audio_files = <<>>
    /\ exc = ""
    /\ detect_calls = <<>>

\* Where a coroutine can be suspended.
Suspended(at) == at \in {"start", "loop", "done", "raised"} \/ (at = "audio" /\ use_tts)

\* Lines 75-87: flow_result is a local of the call, so the run that resumes
\* finds its own.
ResumedShared(own, current) == current

Resumed(own, current) == own

\* The event loop suspends the executing run and resumes the other.
Switch ==
    /\ other.run # 0
    /\ Suspended(pc)
    /\ other' = Locals(3 - other.run)
    /\ flow' = other.flow
    /\ pc' = other.pc
    /\ step_idx' = other.step_idx
    /\ flow_result' = Resumed(other.flow_result, flow_result)
    /\ dialogflow_result' = other.dialogflow_result
    /\ audio_files' = other.audio_files
    /\ exc' = other.exc
    /\ detect_calls' = other.detect_calls
    /\ UNCHANGED <<use_tts, session_log, cmp, flow_dict, parse_result, merge,
                   extract>>

NextPair ==
    \/ AgentNotFound
    \/ CreateSession
    \/ DetectIntentReturns
    \/ DetectIntentRaises
    \/ GenerateStepAudioOff
    \/ GenerateStepAudio
    \/ ValidateStep
    \/ HandleException
    \/ Finally
    \/ Return
    \/ Switch

SpecPair == InitPair /\ [][NextPair]_vars

(***************************************************************************)
(* FlowJSONParser: _validate_flow_structure, _parse_validation_rule,       *)
(* _parse_step, parse_flow_dict.  Each returns [raised, error, message,    *)
(* value]: the value, or the exception that leaves it.                     *)
(***************************************************************************)
Ok(v) == [raised |-> FALSE, error |-> "", message |-> "", value |-> v]
Err(e, m) == [raised |-> TRUE, error |-> e, message |-> m, value |-> <<>>]

\* The characters of a str as one TLA+ string.
RECURSIVE JoinChars(_)
JoinChars(chars) ==
    IF Len(chars) = 0 THEN "" ELSE chars[1] \o JoinChars(Tail(chars))

\* The tokens of a str that is used as a field path.
RECURSIVE Tokens(_, _)
Tokens(chars, run) ==
    LET flushed == IF run = "" THEN <<>> ELSE <<run>>
    IN  IF Len(chars) = 0 THEN flushed
        ELSE IF IsPunct(chars[1])
        THEN flushed \o <<chars[1]>> \o Tokens(Tail(chars), "")
        ELSE Tokens(Tail(chars), run \o chars[1])

\* The field of a ValidationRule: the path of a str, any other value as is.
PathOf(field) == IF field.t = "str" THEN Tokens(field.v, "") ELSE field

\* Enum(value): the name of the member with that value; no member has it
\* (ValueError) when the result is "".
MemberOf(enum, x) ==
    IF x.t = "str" /\ \E n \in DOMAIN enum : enum[n] = JoinChars(x.v)
    THEN CHOOSE n \in DOMAIN enum : enum[n] = JoinChars(x.v)
    ELSE ""

\* Lines 252-257 and 263-268: the except ValueError clauses.
OperatorOfUnchecked(operator_str) == MemberOf(ValidationOperator, operator_str)

OperatorOf(operator_str) ==
    IF MemberOf(ValidationOperator, operator_str) = "" THEN "EQUALS"
    ELSE MemberOf(ValidationOperator, operator_str)

LevelOf(level_str) ==
    IF MemberOf(AssertionLevel, level_str) = "" THEN "CRITICAL"
    ELSE MemberOf(AssertionLevel, level_str)

\* for x in <value>: the items, or the TypeError of a value without iter().
IterOf(x) ==
    CASE x.t = "list" -> Ok(x.v)
      [] x.t = "dict" -> Ok([i \in 1..Len(x.v) |-> PyStr(CharsOf(x.v[i][1]))])
      [] x.t = "str" -> Ok([i \in 1..Len(x.v) |-> PyStr(<<x.v[i]>>)])
      [] OTHER -> Err("TypeError", "object is not iterable")

_parse_validation_rule(rule_data) ==
    IF rule_data.t # "dict"
    THEN Err("AttributeError", "object has no attribute 'get'")
    ELSE IF ~Truthy(DictGet(rule_data, "field", PyNone))
    THEN Err("ValueError", "Validation rule must have 'field'")
    ELSE Ok(Rule(PathOf(DictGet(rule_data, "field", PyNone)),
                 OperatorOf(DictGet(rule_data, "operator", PyStr(<<"equals">>))),
                 DictGet(rule_data, "expected_value",
                         DictGet(rule_data, "value", PyNone)),
                 LevelOf(DictGet(rule_data, "assertion_level",
                                 DictGet(rule_data, "level", PyStr(<<"critical">>)))),
                 DictGet(rule_data, "message",
                         DictGet(rule_data, "custom_message", PyNone))))

\* {'field': field, **criteria}
WithField(field, criteria) ==
    PyDict(<< <<"field", DictGet(criteria, "field", PyStr(CharsOf(field)))>> >>
           \o SelectSeq(criteria.v, LAMBDA kv : kv[1] # "field"))

\* Lines 210-224: the rule of one entry of validation_criteria.
CriteriaRule(field, criteria) ==
    IF criteria.t = "dict" THEN _parse_validation_rule(WithField(field, criteria))
    ELSE Ok(Rule(PathOf(PyStr(CharsOf(field))), "EQUALS", criteria, "CRITICAL", PyNone))

\* The loops that append one parsed rule per item; r is the outcome for the
\* first item that is left.
RECURSIVE ParseCriteria(_, _)
CriteriaParsed(items, acc, r) ==
    IF r.raised THEN r ELSE ParseCriteria(Tail(items), Append(acc, r.value))

ParseCriteria(items, acc) ==
    IF Len(items) = 0 THEN Ok(acc)
    ELSE CriteriaParsed(items, acc, CriteriaRule(items[1][1], items[1][2]))

RECURSIVE ParseRules(_, _)
RuleParsed(items, acc, r) ==
    IF r.raised THEN r ELSE ParseRules(Tail(items), Append(acc, r.value))

ParseRules(items, acc) ==
    IF Len(items) = 0 THEN Ok(acc)
    ELSE RuleParsed(items, acc, _parse_validation_rule(items[1]))

\* for rule_data in <value>: ...
ParseRulesOf(x, acc) ==
    IF IterOf(x).raised THEN IterOf(x) ELSE ParseRules(IterOf(x).value, acc)

\* Lines 196-202.
UserInputOf(user_input_data) ==
    IF user_input_data.t = "str" THEN user_input_data
    ELSE IF user_input_data.t = "dict"
    THEN DictGet(user_input_data, "content",
                 DictGet(user_input_data, "text", PyStr(<<>>)))
    ELSE PyStr(PyStrOf(user_input_data))

\* f"step_{len(validation_rules)}"
DefaultStepId(validation_rules) ==
    PyStr(<<"s", "t", "e", "p", "_">> \o NatChars(Len(validation_rules)))

\* __post_init__: a None default becomes the empty container.
OrEmptyDict(x) == IF x.t = "none" THEN PyDict(<<>>) ELSE x

\* Lines 231-243: the FlowStep.
FlowStep(step_data, validation_rules) ==
    [step_id |-> DictGet(step_data, "step_id",
                         DefaultStepId(validation_rules)),
     user_input |-> UserInputOf(DictGet(step_data, "user_input", PyDict(<<>>))),
     expected_intent |-> DictGet(step_data, "expected_intent", PyNone),
     expected_entities |-> DictGet(step_data, "expected_entities", PyDict(<<>>)),
     expected_response_contains |->
         DictGet(step_data, "expected_response_contains", PyList(<<>>)),
     validation_rules |-> validation_rules,
     continue_on_failure |-> DictGet(step_data, "continue_on_failure", PyBool(FALSE)),
     timeout_seconds |-> DictGet(step_data, "timeout_seconds", PyNum(30)),
     metadata |-> OrEmptyDict(DictGet(step_data, "metadata", PyDict(<<>>)))]

StepRulesParsed(step_data, r) ==
    IF r.raised THEN r ELSE Ok(FlowStep(step_data, r.value))

\* The explicit rules appended before the rules of the criteria.
RulesBeforeCriteria(step_data, c, r) ==
    IF r.raised THEN r ELSE Ok(FlowStep(step_data, r.value \o c.value))

StepCriteriaParsedRulesFirst(step_data, c) ==
    IF c.raised THEN c
    ELSE RulesBeforeCriteria(step_data, c,
             ParseRulesOf(DictGet(step_data, "validation_rules", PyList(<<>>)),
                          <<>>))

StepCriteriaParsed(step_data, c) ==
    IF c.raised THEN c
    ELSE StepRulesParsed(step_data,
             ParseRulesOf(DictGet(step_data, "validation_rules", PyList(<<>>)),
                          c.value))

_parse_step(step_data) ==
    IF step_data.t # "dict"
    THEN Err("AttributeError", "object has no attribute 'get'")
    ELSE IF DictGet(step_data, "validation_criteria", PyDict(<<>>)).t # "dict"
    THEN Err("AttributeError", "object has no attribute 'items'")
    ELSE StepCriteriaParsed(step_data,
             ParseCriteria(DictGet(step_data, "validation_criteria", PyDict(<<>>)).v,
                           <<>>))

\* Lines 148-151: the loop over the steps.
RECURSIVE ParseSteps(_, _)
StepParsed(items, acc, r) ==
    IF r.raised THEN r ELSE ParseSteps(Tail(items), Append(acc, r.value))

ParseSteps(items, acc) ==
    IF Len(items) = 0 THEN Ok(acc)
    ELSE StepParsed(items, acc, _parse_step(items[1]))

_validate_flow_structure_lax(flow_data) ==
    IF ~DictHas(flow_data, "steps")
    THEN Err("ValueError", "Missing required field: steps")
    ELSE IF DictGet(flow_data, "steps", PyNone).t # "list"
    THEN Err("ValueError", "'steps' must be a list")
    ELSE Ok(<<>>)

_validate_flow_structure(flow_data) ==
    IF ~DictHas(flow_data, "steps")
    THEN Err("ValueError", "Missing required field: steps")
    ELSE IF DictGet(flow_data, "steps", PyNone).t # "list"
    THEN Err("ValueError", "'steps' must be a list")
    ELSE IF Len(DictGet(flow_data, "steps", PyNone).v) = 0
    THEN Err("ValueError", "Flow must have at least one step")
    ELSE Ok(<<>>)

\* Lines 141-178: the FlowDefinition.
FlowDefinition(flow_data, steps, global_rules) ==
    [flow_id |-> DictGet(flow_data, "flow_id", DictGet(flow_data, "id", PyNone)),
     flow_name |->
         DictGet(flow_data, "flow_name",
                 DictGet(flow_data, "name",
                         DictGet(flow_data, "flow_id",
                                 DictGet(flow_data, "id", PyNone)))),
     description |-> DictGet(flow_data, "description", PyStr(<<>>)),
     agent_id |-> DictGet(flow_data, "agent_id", PyNone),
     language_code |-> DictGet(flow_data, "language_code", PyStr(<<"e", "n">>)),
     steps |-> steps,
     global_validation_rules |-> global_rules,
     success_criteria |-> OrEmptyDict(DictGet(flow_data, "success_criteria", PyDict(<<>>))),
     metadata |-> OrEmptyDict(DictGet(flow_data, "metadata", PyDict(<<>>)))]

GlobalsParsed(flow_data, steps, g) ==
    IF g.raised THEN g ELSE Ok(FlowDefinition(flow_data, steps, g.value))

StepsParsed(flow_data, s) ==
    IF s.raised THEN s
    ELSE GlobalsParsed(flow_data, s.value,
             ParseRulesOf(DictGet(flow_data, "global_validation_rules", PyList(<<>>)),
                          <<>>))

Structured(flow_data, v) ==
    IF v.raised THEN v
    ELSE IF IterOf(DictGet(flow_data, "steps", PyList(<<>>))).raised
    THEN IterOf(DictGet(flow_data, "steps", PyList(<<>>)))
    ELSE StepsParsed(flow_data,
             ParseSteps(IterOf(DictGet(flow_data, "steps", PyList(<<>>))).value, <<>>))

parse_flow_dict(flow_data) ==
    Structured(flow_data, _validate_flow_structure(flow_data))

(***************************************************************************)
(* SpecParse: one call of parse_flow_dict on a drawn dictionary.           *)
(***************************************************************************)
\* The rule dictionaries of the drawn flows.
RuleData ==
    <<PyDict(<< <<"field", PyStr(<<"intent_confidence">>)>>,
                <<"operator", PyStr(<<"g", "t", "e">>)>>,
                <<"value", PyNum(1)>> >>),
      PyDict(<< <<"operator", PyStr(<<"equals">>)>>,
                <<"expected_value", Text_hi>> >>),
      PyDict(<< <<"field", PyStr(<<"response_messages", "[", "*", "]", ".", "text">>)>>,
                <<"operator", PyStr(<<"contains_all">>)>>,
                <<"expected_value", PyList(<<Text_hi>>)>>,
                <<"assertion_level", PyStr(<<"warning">>)>>,
                <<"message", Text_m>> >>),
      PyDict(<< <<"field", PyStr(<<"intent">>)>>,
                <<"operator", PyStr(<<"bogus">>)>>,
                <<"level", PyStr(<<"bogus">>)>>,
                <<"custom_message", Text_m>> >>)>>

\* The entries of 'steps' of the drawn flows: step dictionaries, and a str.
StepData ==
    <<PyDict(<<>>),
      PyDict(<< <<"step_id", PyStr(<<"s", "1">>)>>,
                <<"user_input", Text_hi>>,
                <<"continue_on_failure", PyBool(TRUE)>> >>),
      PyDict(<< <<"user_input", PyDict(<< <<"text", Text_hi>> >>)>>,
                <<"validation_rules", PyList(<<RuleData[1]>>)>> >>),
      PyDict(<< <<"user_input", PyDict(<< <<"content", Text_Hi>>, <<"text", Text_hi>> >>)>>,
                <<"validation_criteria",
                  PyDict(<< <<"intent", Text_hi>>,
                            <<"intent_confidence",
                              PyDict(<< <<"operator", PyStr(<<"l", "t">>)>>,
                                        <<"value", PyNum(1)>>,
                                        <<"level", PyStr(<<"error">>)>> >>)>> >>)>>,
                <<"validation_rules", PyList(<<RuleData[3]>>)>> >>),
      PyDict(<< <<"validation_rules", PyList(<<RuleData[2]>>)>> >>),
      PyDict(<< <<"step_id", PyStr(<<"s", "1">>)>>,
                <<"user_input", PyNum(1)>>,
                <<"timeout_seconds", PyNum(2)>>,
                <<"metadata", PyNone>>,
                <<"validation_rules", PyList(<<RuleData[4]>>)>> >>),
      Text_hi,
      PyDict(<< <<"validation_rules", PyNone>> >>)>>

\* What a drawn flow carries under 'steps' besides a list: nothing, or a
\* value that is no list.
StepsOther ==
    <<<<>>,
      << <<"steps", PyNone>> >>,
      << <<"steps", Text_hi>> >>,
      << <<"steps", PyNum(1)>> >>,
      << <<"steps", PyDict(<<>>)>> >> >>

\* <<0, <<i>>>> names StepsOther[i], <<1, ixs>> the list of the StepData at ixs.
StepsNames ==
    {<<0, <<i>>>> : i \in DOMAIN StepsOther}
        \cup {<<1, ixs>> : ixs \in UNION {[1..n -> DOMAIN StepData] : n \in 0..MaxSteps}}

StepsEntry(d) ==
    IF d[1] = 0 THEN StepsOther[d[2][1]]
    ELSE << <<"steps", PyList([i \in 1..Len(d[2]) |-> StepData[d[2][i]]])>> >>

GlobalEntries ==
    <<<<>>,
      << <<"global_validation_rules", PyList(<<RuleData[1]>>)>> >>,
      << <<"global_validation_rules", PyList(<<RuleData[2]>>)>> >>,
      << <<"global_validation_rules", PyNone>> >> >>

HeadEntries ==
    <<<<>>,
      << <<"id", PyStr(<<"f">>)>>, <<"name", PyStr(<<"n">>)>> >> >>

InitParse ==
    /\ NoRun
    /\ cmp = NoCompare
    /\ merge = NoMerge
    /\ extract = NoExtract
    /\ other = NoOther
    /\ parse_result = [called |-> FALSE]
    /\ \E h \in DOMAIN HeadEntries, s \in StepsNames, g \in DOMAIN GlobalEntries :
           flow_dict = PyDict(HeadEntries[h] \o StepsEntry(s) \o GlobalEntries[g])

ParseFlowDict ==
    /\ ~parse_result.called
    /\ parse_result' = [called |-> TRUE, outcome |-> parse_flow_dict(flow_dict)]
    /\ UNCHANGED <<flow, use_tts, pc, step_idx, flow_result, dialogflow_result,
                   audio_files, exc, session_log, detect_calls, cmp, flow_dict,
                   merge, extract, other>>

NextParse == ParseFlowDict

SpecParse == InitParse /\ [][NextParse]_vars

(***************************************************************************)
(* SpecRule: one rule dictionary, written with a drawn operator string and *)
(* a drawn expected value, is parsed by _parse_validation_rule and its     *)
(* operator applied to a drawn actual value by _compare_values, as         *)
(* _validate_rule applies it.                                              *)
(***************************************************************************)
\* The operator strings a rule dictionary is written with.
OperatorTexts ==
    <<"equals", "not_equals", "contains", "contains_all", "contains_any",
      "gt", "lt", "gte", "lte", "regex", "in", "bogus">>

WrittenRule(written, expected) ==
    PyDict(<< <<"field", PyStr(<<"intent">>)>>,
              <<"operator", PyStr(<<written>>)>>,
              <<"expected_value", expected>> >>)

InitRule ==
    /\ NoRun
    /\ NoParse
    /\ merge = NoMerge
    /\ extract = NoExtract
    /\ other = NoOther
    /\ \E a \in ValueNames, e \in ValueNames, w \in DOMAIN OperatorTexts :
           cmp = [called |-> FALSE, written |-> OperatorTexts[w],
                  actual |-> ValueOf(a), expected |-> ValueOf(e)]

\* json_parser.py:245-278, then assertion_validator.py:116-120.
RuleEvaluated(c, parsed) ==
    [called |-> TRUE, written |-> c.written, actual |-> c.actual,
     expected |-> c.expected, operator |-> parsed.value.operator,
     outcome |-> _compare_values(c.actual, parsed.value.expected_value,
                                 parsed.value.operator)]

EvaluateRule ==
    /\ ~cmp.called
    /\ "written" \in DOMAIN cmp
    /\ cmp' = RuleEvaluated(cmp, _parse_validation_rule(WrittenRule(cmp.written, cmp.expected)))
    /\ UNCHANGED <<flow, use_tts, pc, step_idx, flow_result, dialogflow_result,
                   audio_files, exc, session_log, detect_calls, flow_dict,
                   parse_result, merge, extract, other>>

NextRule == EvaluateRule

SpecRule == InitRule /\ [][NextRule]_vars

(***************************************************************************)
(* merge_flows.                                                            *)
(***************************************************************************)
\* next((i for i, s in enumerate(merged_steps) if s.step_id == step_id),
\* None): the first index, 0 for None.
IndexOfStep(merged_steps, step_id) ==
    IF \E i \in 1..Len(merged_steps) : PyEq(merged_steps[i].step_id, step_id)
    THEN CHOOSE i \in 1..Len(merged_steps) :
             /\ PyEq(merged_steps[i].step_id, step_id)
             /\ \A j \in 1..(i - 1) : ~PyEq(merged_steps[j].step_id, step_id)
    ELSE 0

\* The body of the loop without its lookup: every override step is appended.
AppendAlways(merged_steps, override_step, existing_idx) ==
    Append(merged_steps, override_step)

\* Lines 298-303: the body of the loop over the steps of the override.
OverrideOrAppend(merged_steps, override_step, existing_idx) ==
    IF existing_idx # 0
    THEN [merged_steps EXCEPT ![existing_idx] = override_step]
    ELSE Append(merged_steps, override_step)

RECURSIVE MergeSteps(_, _)
MergeSteps(merged_steps, override_steps) ==
    IF Len(override_steps) = 0 THEN merged_steps
    ELSE MergeSteps(OverrideOrAppend(merged_steps, override_steps[1],
                                     IndexOfStep(merged_steps,
                                                 override_steps[1].step_id)),
                    Tail(override_steps))

\* {**a, **b}: the keys of a in their order, with the value of b where b
\* has the key, then the keys only b has.
DictMerge(a, b) ==
    PyDict([i \in 1..Len(a.v) |->
                <<a.v[i][1], DictGet(b, a.v[i][1], a.v[i][2])>>]
           \o SelectSeq(b.v, LAMBDA kv : ~DictHas(a, kv[1])))

\* x, whatever it is.
OrElseNever(x, y) == x

\* x or y
OrElse(x, y) == IF Truthy(x) THEN x ELSE y

merge_flows(base_flow, override_flow) ==
    [flow_id |-> override_flow.flow_id,
     flow_name |-> override_flow.flow_name,
     description |-> OrElse(override_flow.description, base_flow.description),
     agent_id |-> OrElse(override_flow.agent_id, base_flow.agent_id),
     language_code |-> override_flow.language_code,
     steps |-> MergeSteps(base_flow.steps, override_flow.steps),
     global_validation_rules |->
         base_flow.global_validation_rules \o override_flow.global_validation_rules,
     success_criteria |->
         DictMerge(base_flow.success_criteria, override_flow.success_criteria),
     metadata |-> DictMerge(base_flow.metadata, override_flow.metadata)]

(***************************************************************************)
(* SpecMerge: one call of merge_flows on two drawn flow definitions.       *)
(***************************************************************************)
MergeIds == {"a", "b", "c"}

\* The step_id lists of a flow, repeated ids included.
MergeIdLists == UNION {[1..n -> MergeIds] : n \in 0..MaxSteps}

\* The steps of a flow with these step_ids; the user input tells whose step
\* it is and where it stood.
MergeStepsOf(who, ids) ==
    [i \in 1..Len(ids) |->
        FlowStep(PyDict(<< <<"step_id", PyStr(<<ids[i]>>)>>,
                           <<"user_input", PyStr(<<who>> \o NatChars(i))>> >>),
                 <<>>)]

\* What a flow carries besides its steps: nothing at all, empty strings, and
\* two flows with every field set.
MergeHeads ==
    << [data |-> PyDict(<<>>), rules |-> <<>>],
       [data |-> PyDict(<< <<"flow_id", PyStr(<<>>)>>,
                           <<"flow_name", PyStr(<<>>)>>,
                           <<"language_code", PyStr(<<>>)>> >>),
        rules |-> <<>>],
       [data |-> PyDict(<< <<"flow_id", PyStr(<<"f">>)>>,
                           <<"flow_name", PyStr(<<"n">>)>>,
                           <<"description", PyStr(<<"d">>)>>,
                           <<"agent_id", PyStr(<<"agent">>)>>,
                           <<"language_code", PyStr(<<"f", "r">>)>>,
                           <<"success_criteria", PyDict(<< <<"k", PyNum(1)>> >>)>>,
                           <<"metadata", PyDict(<< <<"m", PyNum(1)>> >>)>> >>),
        rules |-> <<Rule(<<"intent">>, "EQUALS", Text_hi, "CRITICAL", Text_m)>>],
       [data |-> PyDict(<< <<"flow_id", PyStr(<<"g">>)>>,
                           <<"flow_name", PyStr(<<"n">>)>>,
                           <<"language_code", PyStr(<<"e", "n">>)>>,
                           <<"success_criteria", PyDict(<< <<"j", PyNum(2)>> >>)>>,
                           <<"metadata", PyDict(<< <<"x", PyNum(1)>>,
                                                  <<"m", PyNum(2)>> >>)>> >>),
        rules |-> <<Rule(<<"intent_confidence">>, "GREATER_EQUAL", PyNum(1),
                         "WARNING", PyNone)>>] >>

\* FlowDefinition(...) of a head and a list of step_ids.
MergeFlowOf(who, h, ids) ==
    FlowDefinition(MergeHeads[h].data, MergeStepsOf(who, ids), MergeHeads[h].rules)

InitMerge ==
    /\ NoRun
    /\ NoParse
    /\ cmp = NoCompare
    /\ extract = NoExtract
    /\ other = NoOther
    /\ \E bh \in DOMAIN MergeHeads, oh \in DOMAIN MergeHeads,
          bs \in MergeIdLists, os \in MergeIdLists :
           merge = [called |-> FALSE,
                    base_flow |-> MergeFlowOf("base", bh, bs),
                    override_flow |-> MergeFlowOf("override", oh, os)]

MergeFlows ==
    /\ ~merge.called
    /\ "base_flow" \in DOMAIN merge
    /\ merge' = [called |-> TRUE, base_flow |-> merge.base_flow,
                 override_flow |-> merge.override_flow,
                 result |-> merge_flows(merge.base_flow, merge.override_flow)]
    /\ UNCHANGED <<flow, use_tts, pc, step_idx, flow_result, dialogflow_result,
                   audio_files, exc, session_log, detect_calls, cmp, flow_dict,
                   parse_result, extract, other>>

NextMerge == MergeFlows

SpecMerge == InitMerge /\ [][NextMerge]_vars

(***************************************************************************)
(* SpecExtract: one call of _extract_field_value on a drawn record and a   *)
(* drawn field path.                                                       *)
(***************************************************************************)
Text_Hello == PyStr(<<"H", "e", "l", "l", "o", " ", "t", "h", "e", "r", "e", "!">>)
Text_Billing == PyStr(<<"I", " ", "c", "a", "n", " ", "h", "e", "l", "p", " ", "w", "i", "t", "h", " ", "b", "i", "l", "l", "i", "n", "g", ".">>)

\* The response messages of the drawn records: two texts, a payload without
\* text, an empty text and a text that is a number.
MessagePool ==
    <<PyDict(<< <<"type", Text_text>>, <<"text", Text_Hello>> >>),
      PyDict(<< <<"type", Text_text>>, <<"text", Text_Billing>> >>),
      PyDict(<< <<"type", Text_payload>>, <<"data", PyStr(<<"custom">>)>> >>),
      PyDict(<< <<"type", Text_text>>, <<"text", PyStr(<<>>)>> >>),
      PyDict(<< <<"type", Text_text>>, <<"text", PyNum(1)>> >>)>>

MessageLists == UNION {[1..n -> DOMAIN MessagePool] : n \in 0..MaxMessages}

\* A record with these response messages.
RecordOf(ixs) ==
    PyDict(<< <<"step_id", PyStr(<<"test_step">>)>>,
              <<"intent", Text_hi>>,
              <<"response_messages",
                PyList([i \in 1..Len(ixs) |-> MessagePool[ixs[i]]])>> >>)

\* A record without response messages.
BareRecord == PyDict(<< <<"intent", Text_hi>> >>)

\* Records with parameters (a mapping of two keys, an empty one, None) and a
\* record with a list that holds lists, a number and a mapping.
OtherRecords ==
    <<BareRecord,
      PyDict(<< <<"intent", Text_hi>>,
                <<"parameters", PyDict(<< <<"name", PyStr(<<"John">>)>>,
                                         <<"email", PyStr(<<"john@example.com">>)>> >>)>> >>),
      PyDict(<< <<"parameters", PyDict(<<>>)>> >>),
      PyDict(<< <<"parameters", PyNone>> >>),
      PyDict(<< <<"items", PyList(<<PyList(<<PyNum(1), PyNum(2)>>),
                                    PyNum(0),
                                    PyList(<<PyList(<<PyNum(1)>>)>>),
                                    PyDict(<< <<"x", PyNum(2)>> >>)>>)>> >>)>>

FieldPaths ==
    <<<<"response_messages", "[", "*", "]", ".", "text">>,
      <<"response_messages", "[", "]", ".", "text">>,
      <<"response_messages", "[", "0", "]", ".", "text">>,
      <<"response_messages", "[", "1", "]", ".", "text">>,
      <<"response_messages">>,
      <<"response_messages", "[", "*", "]", ".", "type">>,
      <<"response_messages", "[", "0", "]">>,
      <<"intent">>,
      <<"response_text">>,
      <<"parameters">>,
      <<"parameters", ".", "email">>,
      <<"items", "[", "*", "]">>,
      <<"items", "[", "*", "]", "[", "*", "]">>,
      <<"items", "[", "0", "]">>,
      <<"items", "[", "1", "]", "[", "0", "]">>,
      <<"items", "[", "0", "]", ".", "x">>,
      <<"items", "[", "*", "]", ".", "x">>,
      <<"items", "[", "4", "]">>,
      <<"intent", "[", "*", "]">>>>

InitExtract ==
    /\ NoRun
    /\ NoParse
    /\ cmp = NoCompare
    /\ merge = NoMerge
    /\ other = NoOther
    /\ \E f \in DOMAIN FieldPaths :
           \/ \E ixs \in MessageLists :
                  extract = [called |-> FALSE, data |-> RecordOf(ixs),
                             field_path |-> FieldPaths[f]]
           \/ \E r \in DOMAIN OtherRecords :
                  extract = [called |-> FALSE, data |-> OtherRecords[r],
                             field_path |-> FieldPaths[f]]

ExtractFieldValue ==
    /\ ~extract.called
    /\ "data" \in DOMAIN extract
    /\ extract' = [called |-> TRUE, data |-> extract.data,
                   field_path |-> extract.field_path,
                   result |-> _extract_field_value(extract.data, extract.field_path)]
    /\ UNCHANGED <<flow, use_tts, pc, step_idx, flow_result, dialogflow_result,
                   audio_files, exc, session_log, detect_calls, cmp, flow_dict,
                   parse_result, merge, other>>

NextExtract == ExtractFieldValue

SpecExtract == InitExtract /\ [][NextExtract]_vars

(***************************************************************************)
(* Properties of execute_flow, validate_step and generate_report, checked  *)
(* under Spec, and of _compare_values, checked under SpecCompare.          *)
(***************************************************************************)
\* The run has a flow_result: execute_flow is past line 87.
Running == pc \in {"loop", "audio", "validate", "except", "finally", "report", "done"}

\* The run is over: flow_result is what execute_flow returns.
HasReturned == pc = "done"

NoCollaboratorError == \A c \in 1..Len(detect_calls) : ~detect_calls[c].raised

\* Number of failed assertions of one level in a StepValidationResult.
FailedAt(result, level) ==
    Cardinality({i \in 1..Len(result.assertions) :
                    /\ ~result.assertions[i].passed
                    /\ result.assertions[i].assertion_level = level})

CriticalRuleFails(k) ==
    \E i \in 1..Len(RulesOf(flow.steps[k])) :
        /\ RulesOf(flow.steps[k])[i].assertion_level = "CRITICAL"
        /\ ~_compare_values(
                _extract_field_value(flow_result.steps[k],
                                     RulesOf(flow.steps[k])[i].field),
                RulesOf(flow.steps[k])[i].expected_value,
                RulesOf(flow.steps[k])[i].operator).value

\* C2: in a returned run without a collaborator error whose steps all have
\* continue_on_failure true, a step with a failing CRITICAL assertion does
\* not stop the run: stopped_early is false, detect_intent was called for
\* every step of the flow, and steps holds every step of the flow.
C2_ContinueOnFailure ==
    (/\ HasReturned
     /\ NoCollaboratorError
     /\ \A j \in 1..Len(flow.steps) : Truthy(flow.steps[j].continue_on_failure)
     /\ \E k \in 1..Len(flow_result.steps) : CriticalRuleFails(k))
        => /\ ~flow_result.stopped_early
           /\ Len(detect_calls) = Len(flow.steps)
           /\ Len(flow_result.steps) = Len(flow.steps)

\* C3: every StepValidationResult has passed true exactly when its
\* critical_failures and errors are both zero, the two counters being the
\* numbers of failed CRITICAL and failed ERROR assertions; the failed WARNING
\* assertions do not enter.
C3_PassedIff ==
    Running =>
        \A k \in 1..Len(flow_result.validation_results) :
            LET r == flow_result.validation_results[k]
            IN  /\ r.passed <=> (r.critical_failures = 0 /\ r.errors = 0)
                /\ r.critical_failures = FailedAt(r, "CRITICAL")
                /\ r.errors = FailedAt(r, "ERROR")
                /\ r.warnings = FailedAt(r, "WARNING")

\* A step whose two WARNING assertions both failed has passed.
C3_Witness ==
    /\ Running
    /\ \E k \in 1..Len(flow_result.validation_results) :
           /\ flow_result.validation_results[k].warnings = 2
           /\ flow_result.validation_results[k].passed

\* C4: for every validated step, the assertions are those of the step's own
\* rules followed by the flow's global rules, and should_stop is true exactly
\* when one of them is a failed CRITICAL assertion and the step's
\* continue_on_failure is false.
C4_ShouldStopIff ==
    Running =>
        \A k \in 1..Len(flow_result.validation_results) :
            LET r == flow_result.validation_results[k]
            IN  /\ [i \in 1..Len(r.assertions) |-> r.assertions[i].rule]
                       = flow.steps[k].validation_rules \o flow.global_validation_rules
                /\ r.should_stop <=>
                       (/\ FailedAt(r, "CRITICAL") > 0
                        /\ ~Truthy(flow.steps[k].continue_on_failure))

\* A step stops on a failed CRITICAL global rule while its own failed
\* assertion is an ERROR.
C4_Witness ==
    /\ Running
    /\ \E k \in 1..Len(flow_result.validation_results) :
           LET r == flow_result.validation_results[k]
           IN  /\ r.should_stop
               /\ r.errors = 1
               /\ r.critical_failures = 1
               /\ \A i \in 1..Len(flow.steps[k].validation_rules) :
                      r.assertions[i].assertion_level # "CRITICAL"

\* C5: a returned run in which no step stopped and the collaborator raised
\* no error has success true exactly when the report's failed_steps is zero.
C5_SuccessIffNoFailedSteps ==
    (HasReturned /\ ~flow_result.stopped_early /\ NoCollaboratorError)
        => (flow_result.success
               <=> flow_result.validation_report.summary.failed_steps = 0)

\* C6: when detect_intent raises on step k, the exception is handled inside
\* execute_flow and no later call of detect_intent is made; once the except
\* clause has run the result has success false and the error, and its steps
\* and validation_results are those of the k-1 steps before; the returned
\* validation_report covers the same k-1 steps.
C6_CollaboratorErrorAborts ==
    \A c \in 1..Len(detect_calls) :
        detect_calls[c].raised =>
            LET k == detect_calls[c].step
            IN  /\ c = Len(detect_calls)
                /\ pc \in {"except", "finally", "report", "done"}
                /\ pc = "except" <=> exc = "net"
                /\ Len(flow_result.steps) = k - 1
                /\ Len(flow_result.validation_results) = k - 1
                /\ \A i \in 1..(k - 1) :
                       /\ DictGet(flow_result.steps[i], "step_id", PyNone)
                              = flow.steps[i].step_id
                       /\ flow_result.validation_results[i].step_id
                              = flow.steps[i].step_id
                /\ pc # "except" =>
                       /\ flow_result.success = FALSE
                       /\ flow_result.has_error
                       /\ flow_result.error = "net"
                /\ pc = "done" =>
                       /\ flow_result.success = FALSE
                       /\ flow_result.validation_report.summary.total_steps = k - 1
                       /\ Len(flow_result.validation_report.step_details) = k - 1

\* detect_intent raised on the second step and the run has returned.
C6_Witness ==
    /\ HasReturned
    /\ Len(detect_calls) = 2
    /\ detect_calls[2].raised
    /\ Len(flow_result.steps) = 1
    /\ flow_result.has_error

\* C7: a call of _compare_values raises nothing and returns a boolean, and
\* returns false when the body of its try block raised.
C7_NeverRaises ==
    cmp.called =>
        /\ ~cmp.outcome.raised
        /\ cmp.outcome.value \in BOOLEAN
        /\ CompareTry(cmp.actual, cmp.expected, cmp.operator).raised
               => cmp.outcome.value = FALSE

\* A numeric comparison of None against a list: the try block raised.
C7_Witness ==
    /\ cmp.called
    /\ cmp.operator = "LESS_THAN"
    /\ cmp.actual.t = "none"
    /\ cmp.expected.t = "list"
    /\ CompareTry(cmp.actual, cmp.expected, cmp.operator).raised
    /\ cmp.outcome = Returned(FALSE)

\* sum of xs[i][field] over i in 1..n
RECURSIVE SumTo(_, _, _)
SumTo(xs, field, n) ==
    IF n = 0 THEN 0 ELSE SumTo(xs, field, n - 1) + xs[n][field]

\* C8: the report of a returned run has total_steps the number of step
\* results, passed_steps the number of them with passed true, failed_steps
\* their difference, the critical, error and warning totals the sums of the
\* per-step counts and success_rate = passed_steps / total_steps * 100; over
\* no step results success_rate is 0, every count zero and
\* first_failure_step null.
C8_ReportTotals ==
    HasReturned =>
        LET xs == flow_result.validation_results
            s == flow_result.validation_report.summary
        IN  /\ s.total_steps = Len(xs)
            /\ s.passed_steps = Cardinality({i \in 1..Len(xs) : xs[i].passed})
            /\ s.failed_steps = s.total_steps - s.passed_steps
            /\ s.critical_failures = SumTo(xs, "critical_failures", Len(xs))
            /\ s.errors = SumTo(xs, "errors", Len(xs))
            /\ s.warnings = SumTo(xs, "warnings", Len(xs))
            /\ Len(xs) > 0 =>
                   s.success_rate.num * Len(xs)
                       = Cardinality({i \in 1..Len(xs) : xs[i].passed}) * 100
                           * s.success_rate.den
            /\ Len(xs) = 0 =>
                   /\ s.success_rate = [num |-> 0, den |-> 1]
                   /\ s.total_steps = 0 /\ s.passed_steps = 0 /\ s.failed_steps = 0
                   /\ s.total_assertions = 0 /\ s.passed_assertions = 0
                   /\ s.failed_assertions = 0
                   /\ s.critical_failures = 0 /\ s.errors = 0 /\ s.warnings = 0
                   /\ s.first_failure_step = PyNone

\* A report over two step results, one passed (success_rate 50), with a
\* critical failure and a warning counted.
C8_Witness ==
    /\ HasReturned
    /\ Len(flow_result.validation_results) = 2
    /\ flow_result.validation_report.summary.passed_steps = 1
    /\ flow_result.validation_report.summary.success_rate = [num |-> 100, den |-> 2]
    /\ flow_result.validation_report.summary.critical_failures >= 1
    /\ flow_result.validation_report.summary.warnings >= 1

\* C9: first_failure_step of the returned report is the step_id of the
\* earliest step result with passed false, and null when every step result
\* passed, whether or not the run stopped early.
C9_FirstFailure ==
    HasReturned =>
        LET xs == flow_result.validation_results
            first == flow_result.validation_report.summary.first_failure_step
            failed == {i \in 1..Len(xs) : ~xs[i].passed}
        IN  /\ failed = {} => first = PyNone
            /\ failed # {} =>
                   \E i \in failed :
                       /\ \A j \in failed : i <= j
                       /\ first = xs[i].step_id
                       /\ first = flow.steps[i].step_id

\* The run stopped early at its second step and the report names the first.
C9_Witness ==
    /\ HasReturned
    /\ flow_result.stopped_early
    /\ Len(flow_result.validation_results) = 2
    /\ flow_result.validation_results[2].should_stop
    /\ ~flow_result.validation_results[1].passed
    /\ flow_result.validation_report.summary.first_failure_step = flow.steps[1].step_id

\* C10: parse_flow_dict raises a ValueError, and returns no FlowDefinition,
\* when the dictionary has no 'steps', when 'steps' is no list and when it is
\* the empty list; a FlowDefinition it returns has at least one step.
C10_StepsRequired ==
    parse_result.called =>
        /\ ~DictHas(flow_dict, "steps") =>
               /\ parse_result.outcome.raised
               /\ parse_result.outcome.error = "ValueError"
               /\ parse_result.outcome.message = "Missing required field: steps"
        /\ (DictHas(flow_dict, "steps") /\ DictGet(flow_dict, "steps", PyNone).t # "list") =>
               /\ parse_result.outcome.raised
               /\ parse_result.outcome.error = "ValueError"
               /\ parse_result.outcome.message = "'steps' must be a list"
        /\ (DictGet(flow_dict, "steps", PyNone).t = "list"
                /\ Len(DictGet(flow_dict, "steps", PyNone).v) = 0) =>
               /\ parse_result.outcome.raised
               /\ parse_result.outcome.error = "ValueError"
               /\ parse_result.outcome.message = "Flow must have at least one step"
        /\ ~parse_result.outcome.raised =>
               /\ Len(parse_result.outcome.value.steps) >= 1
               /\ Len(parse_result.outcome.value.steps)
                      = Len(DictGet(flow_dict, "steps", PyNone).v)

\* The call was made on a dictionary whose 'steps' is the empty list.
C10_Witness ==
    /\ parse_result.called
    /\ DictHas(flow_dict, "steps")
    /\ DictGet(flow_dict, "steps", PyNone) = PyList(<<>>)
    /\ parse_result.outcome.raised
    /\ parse_result.outcome.message = "Flow must have at least one step"

\* C24: a StepValidationResult holds one AssertionResult for each rule
\* handed to validate_step, in the order of the rules, also after a rule that
\* failed at CRITICAL level and set should_stop; the rules handed over are
\* the step's own followed by the global rules of the flow.
C24_EveryRuleEvaluated ==
    Running =>
        \A k \in 1..Len(flow_result.validation_results) :
            LET r == flow_result.validation_results[k]
                own == flow.steps[k].validation_rules
                global == flow.global_validation_rules
            IN  /\ Len(r.assertions) = Len(own) + Len(global)
                /\ \A j \in 1..Len(own) : r.assertions[j].rule = own[j]
                /\ \A j \in 1..Len(global) :
                       r.assertions[Len(own) + j].rule = global[j]

\* A step whose first rule failed at CRITICAL level and stopped the run: its
\* second rule and the global rule were evaluated all the same.
C24_Witness ==
    /\ Running
    /\ Len(flow_result.validation_results) >= 1
    /\ flow_result.validation_results[1].should_stop
    /\ Len(flow.steps[1].validation_rules) = 2
    /\ Len(flow.global_validation_rules) = 1
    /\ Len(flow_result.validation_results[1].assertions) = 3
    /\ ~flow_result.validation_results[1].assertions[1].passed
    /\ flow_result.validation_results[1].assertions[1].assertion_level = "CRITICAL"
    /\ flow_result.validation_results[1].assertions[3].rule
           = flow.global_validation_rules[1]

\* The number of entries of the session log that are this call.
CallsOf(call) == Cardinality({i \in 1..Len(session_log) : session_log[i] = call})

\* C25: in a run of execute_flow detect_intent is called for the steps in
\* flow order, once each; the validation of a step starts only when the call
\* for it has returned; the session is updated only for a step whose
\* validation result is recorded; and detect_intent is called for step k + 1
\* only after the validation of step k has completed without a stop.
C25_StepsInOrder ==
    Running =>
        /\ \A c \in 1..Len(detect_calls) :
               /\ detect_calls[c].step = c
               /\ c < Len(detect_calls) => ~detect_calls[c].raised
               /\ c > 1 =>
                      /\ Len(flow_result.validation_results) >= c - 1
                      /\ ~flow_result.validation_results[c - 1].should_stop
        /\ pc = "validate" =>
               /\ Len(detect_calls) = step_idx
               /\ ~detect_calls[step_idx].raised
               /\ Len(flow_result.validation_results) = step_idx - 1
        /\ Len(flow_result.validation_results) <= Len(flow_result.steps)
        /\ Len(flow_result.steps) <= Len(detect_calls)
        /\ CallsOf("update") = Len(flow_result.validation_results)

\* A returned run of two steps: two calls of detect_intent, each followed by
\* a validation and an update of the session.
C25_Witness ==
    /\ HasReturned
    /\ Len(flow.steps) = 2
    /\ detect_calls = <<[step |-> 1, raised |-> FALSE], [step |-> 2, raised |-> FALSE]>>
    /\ Len(flow_result.validation_results) = 2
    /\ session_log = <<"create", "update", "update", "end">>

\* C28: a run that created a session ends it exactly once, after its last
\* step and before it returns, whether it went through, stopped on a
\* critical failure or was aborted by an error of detect_intent; the session
\* is updated once for every validated step, the stopping one included, and
\* not for a step whose detect_intent call raised.
C28_SessionEndedOnce ==
    Running =>
        /\ CallsOf("create") = 1
        /\ session_log[1] = "create"
        /\ CallsOf("end") = IF pc \in {"report", "done"} THEN 1 ELSE 0
        /\ pc \in {"report", "done"} => session_log[Len(session_log)] = "end"
        /\ CallsOf("update") = Len(flow_result.validation_results)
        /\ \A c \in 1..Len(detect_calls) :
               detect_calls[c].raised => CallsOf("update") < c
        /\ \A i \in 1..Len(session_log) :
               session_log[i] = "update" => 1 < i /\ (i < Len(session_log) \/ pc \notin {"report", "done"})

\* A run of two steps aborted by detect_intent at its second step: the
\* session is updated for the first step and ended.
C28_Witness ==
    /\ HasReturned
    /\ Len(detect_calls) = 2
    /\ detect_calls[2].raised
    /\ flow_result.has_error
    /\ session_log = <<"create", "update", "end">>

\* C29: in every returned result, also of a run aborted by an exception
\* raised inside the loop, steps and validation_results have the same length
\* and the same step_id at every position, and the report's total_steps is
\* the number of step records.
C29_StepsMatchResults ==
    HasReturned =>
        /\ Len(flow_result.steps) = Len(flow_result.validation_results)
        /\ \A i \in 1..Len(flow_result.validation_results) :
               i <= Len(flow_result.steps)
                   /\ DictGet(flow_result.steps[i], "step_id", PyNone)
                          = flow_result.validation_results[i].step_id
        /\ flow_result.validation_report.summary.total_steps = Len(flow_result.steps)

\* C30: in every returned result, success means that the run did not stop
\* early, that no error is recorded, that every step of the flow was executed
\* and that every executed step passed; stopped_early means that success is
\* false, that the last validation result, and no other, has should_stop, and
\* that stop_reason is set.
C30_SuccessAndStop ==
    HasReturned =>
        /\ flow_result.success =>
               /\ ~flow_result.stopped_early
               /\ ~flow_result.has_error
               /\ Len(flow_result.steps) = Len(flow.steps)
               /\ Len(flow_result.validation_results) = Len(flow.steps)
               /\ \A i \in 1..Len(flow_result.validation_results) :
                      flow_result.validation_results[i].passed
        /\ flow_result.stopped_early =>
               /\ ~flow_result.success
               /\ Len(flow_result.validation_results) >= 1
               /\ \A i \in 1..Len(flow_result.validation_results) :
                      flow_result.validation_results[i].should_stop
                          <=> i = Len(flow_result.validation_results)
               /\ flow_result.stop_reason =
                      <<"Critical assertion failed in step: ",
                        flow.steps[Len(flow_result.validation_results)].step_id>>

\* A returned run that stopped at its second step: the first validation
\* result passed without should_stop, the second has it.
C30_Witness ==
    /\ HasReturned
    /\ flow_result.stopped_early
    /\ ~flow_result.success
    /\ Len(flow_result.validation_results) = 2
    /\ flow_result.validation_results[1].passed
    /\ flow_result.validation_results[2].should_stop
    /\ flow_result.stop_reason = <<"Critical assertion failed in step: ", flow.steps[2].step_id>>

(***************************************************************************)
(* Properties of the parser, checked under SpecParse.                      *)
(***************************************************************************)
\* Whether a str is the value of a member of an enumeration, and the member.
Recognised(enum, x) ==
    x.t = "str" /\ \E n \in DOMAIN enum : enum[n] = JoinChars(x.v)

NamedBy(enum, x, fallback) ==
    IF Recognised(enum, x)
    THEN CHOOSE n \in DOMAIN enum : enum[n] = JoinChars(x.v)
    ELSE fallback

OperatorText(rule_data) == DictGet(rule_data, "operator", PyStr(<<"equals">>))

LevelText(rule_data) ==
    DictGet(rule_data, "assertion_level",
            DictGet(rule_data, "level", PyStr(<<"critical">>)))

\* A rule dictionary with a non-empty field, a list of them, a step
\* dictionary and a flow dictionary all of whose rules have one.
RuleOk(rule_data) ==
    rule_data.t = "dict" /\ Truthy(DictGet(rule_data, "field", PyNone))

RulesOk(x) == x.t = "list" /\ \A i \in 1..Len(x.v) : RuleOk(x.v[i])

CriteriaOf(step_data) == DictGet(step_data, "validation_criteria", PyDict(<<>>))

ExplicitRulesOf(step_data) == DictGet(step_data, "validation_rules", PyList(<<>>))

StepOk(step_data) ==
    /\ step_data.t = "dict"
    /\ CriteriaOf(step_data).t = "dict"
    /\ \A i \in 1..Len(CriteriaOf(step_data).v) :
           LET criteria == CriteriaOf(step_data).v[i][2]
           IN  criteria.t = "dict" =>
                   Truthy(DictGet(criteria, "field", PyStr(<<"key">>)))
    /\ RulesOk(ExplicitRulesOf(step_data))

StepsGiven == DictGet(flow_dict, "steps", PyList(<<>>))

GlobalsGiven == DictGet(flow_dict, "global_validation_rules", PyList(<<>>))

FlowOk ==
    /\ StepsGiven.t = "list"
    /\ Len(StepsGiven.v) > 0
    /\ \A i \in 1..Len(StepsGiven.v) : StepOk(StepsGiven.v[i])
    /\ RulesOk(GlobalsGiven)

\* The rule has the operator and the severity its dictionary names, EQUALS
\* and CRITICAL standing in for a string that names none, and the expected
\* value and the message of the dictionary.
RuleFollows(rule, rule_data) ==
    /\ rule.operator = NamedBy(ValidationOperator, OperatorText(rule_data), "EQUALS")
    /\ rule.assertion_level = NamedBy(AssertionLevel, LevelText(rule_data), "CRITICAL")
    /\ rule.expected_value =
           DictGet(rule_data, "expected_value", DictGet(rule_data, "value", PyNone))
    /\ rule.custom_message =
           DictGet(rule_data, "message", DictGet(rule_data, "custom_message", PyNone))

\* C11: on a flow dictionary all of whose rules have a non-empty field,
\* parse_flow_dict returns a flow with every step and every rule of the
\* dictionary, a rule with an unrecognised operator string having the
\* operator EQUALS and one with an unrecognised severity string CRITICAL.
C11_UnknownStringsDefault ==
    (parse_result.called /\ FlowOk) =>
        /\ ~parse_result.outcome.raised
        /\ Len(parse_result.outcome.value.steps) = Len(StepsGiven.v)
        /\ \A i \in 1..Len(StepsGiven.v) :
               LET given == ExplicitRulesOf(StepsGiven.v[i]).v
                   before == Len(CriteriaOf(StepsGiven.v[i]).v)
                   rules == parse_result.outcome.value.steps[i].validation_rules
               IN  /\ Len(rules) = before + Len(given)
                   /\ \A k \in 1..Len(given) : RuleFollows(rules[before + k], given[k])
        /\ Len(parse_result.outcome.value.global_validation_rules) = Len(GlobalsGiven.v)
        /\ \A k \in 1..Len(GlobalsGiven.v) :
               RuleFollows(parse_result.outcome.value.global_validation_rules[k],
                           GlobalsGiven.v[k])

\* A returned flow of two steps: the rule of the first has an operator and a
\* severity string that name nothing, the rule of the second kept its gte.
C11_Witness ==
    /\ parse_result.called
    /\ FlowOk
    /\ ~parse_result.outcome.raised
    /\ Len(StepsGiven.v) = 2
    /\ Len(ExplicitRulesOf(StepsGiven.v[1]).v) = 1
    /\ OperatorText(ExplicitRulesOf(StepsGiven.v[1]).v[1]) = PyStr(<<"bogus">>)
    /\ LevelText(ExplicitRulesOf(StepsGiven.v[1]).v[1]) = PyStr(<<"bogus">>)
    /\ parse_result.outcome.value.steps[1].validation_rules[1].operator = "EQUALS"
    /\ parse_result.outcome.value.steps[1].validation_rules[1].assertion_level = "CRITICAL"
    /\ Len(parse_result.outcome.value.steps[2].validation_rules) = 1
    /\ parse_result.outcome.value.steps[2].validation_rules[1].operator = "GREATER_EQUAL"

\* The eleven operator strings of the rule language.
OperatorStrings ==
    {"equals", "not_equals", "contains", "contains_all", "contains_any",
     "gt", "lt", "gte", "lte", "regex", "in"}

\* C12: a rule written with one of the eleven operator strings is parsed to
\* an operator of its own: only 'equals' gives EQUALS, and two rules of a
\* step written with different strings have different operators.
C12_ElevenOperators ==
    (parse_result.called /\ FlowOk) =>
        \A i \in 1..Len(StepsGiven.v) :
            LET given == ExplicitRulesOf(StepsGiven.v[i]).v
                before == Len(CriteriaOf(StepsGiven.v[i]).v)
                rules == parse_result.outcome.value.steps[i].validation_rules
                written(k) == JoinChars(PyStrOf(OperatorText(given[k])))
            IN  \A k \in 1..Len(given) :
                    written(k) \in OperatorStrings =>
                        /\ rules[before + k].operator = "EQUALS"
                               <=> written(k) = "equals"
                        /\ \A j \in 1..Len(given) :
                               (written(j) \in OperatorStrings /\ written(j) # written(k))
                                   => rules[before + j].operator
                                          # rules[before + k].operator

\* The field a rule dictionary names, as the parser keeps it.
FieldFollows(rule, rule_data) == rule.field = PathOf(DictGet(rule_data, "field", PyNone))

\* The rule of one validation_criteria entry: of a literal, the rule that
\* compares the field named by the key for equality at severity CRITICAL; of
\* a dictionary, the rule the dictionary describes, for the field named by
\* the key unless the dictionary names one.
CriteriaFollows(rule, entry) ==
    IF entry[2].t = "dict"
    THEN /\ RuleFollows(rule, entry[2])
         /\ rule.field = PathOf(DictGet(entry[2], "field", PyStr(CharsOf(entry[1]))))
    ELSE rule = Rule(PathOf(PyStr(CharsOf(entry[1]))), "EQUALS", entry[2],
                     "CRITICAL", PyNone)

\* C15: the validation_rules of every parsed step are the rules of its
\* validation_criteria entries, in the order of the mapping, followed by the
\* rules of its validation_rules list, in the order of the list; the rule of
\* a criteria entry with a literal value has operator EQUALS and severity
\* CRITICAL.
C15_CriteriaThenRules ==
    (parse_result.called /\ FlowOk) =>
        /\ ~parse_result.outcome.raised
        /\ \A i \in 1..Len(StepsGiven.v) :
               LET criteria == CriteriaOf(StepsGiven.v[i]).v
                   given == ExplicitRulesOf(StepsGiven.v[i]).v
                   rules == parse_result.outcome.value.steps[i].validation_rules
               IN  /\ Len(rules) = Len(criteria) + Len(given)
                   /\ \A j \in 1..Len(criteria) : CriteriaFollows(rules[j], criteria[j])
                   /\ \A k \in 1..Len(given) :
                          /\ RuleFollows(rules[Len(criteria) + k], given[k])
                          /\ FieldFollows(rules[Len(criteria) + k], given[k])

\* A returned flow with a step of three rules: the literal criterion on
\* intent, the dictionary criterion on intent_confidence, then the explicit
\* rule on the texts of the response messages.
C15_Witness ==
    /\ parse_result.called
    /\ FlowOk
    /\ ~parse_result.outcome.raised
    /\ \E i \in 1..Len(StepsGiven.v) :
           LET rules == parse_result.outcome.value.steps[i].validation_rules
           IN  /\ Len(CriteriaOf(StepsGiven.v[i]).v) = 2
               /\ CriteriaOf(StepsGiven.v[i]).v[1][2].t = "str"
               /\ CriteriaOf(StepsGiven.v[i]).v[2][2].t = "dict"
               /\ Len(ExplicitRulesOf(StepsGiven.v[i]).v) = 1
               /\ Len(rules) = 3
               /\ rules[1].operator = "EQUALS"
               /\ rules[1].assertion_level = "CRITICAL"
               /\ rules[1].field = <<"intent">>
               /\ rules[2].field = <<"intent_confidence">>
               /\ rules[2].operator = "LESS_THAN"
               /\ rules[3].field # rules[1].field
               /\ rules[3].field # rules[2].field

\* C16: when the steps of a flow dictionary omit step_id, every step of the
\* flow parse_flow_dict returns has a generated step_id and no two steps of
\* the flow have the same one.
C16_GeneratedIdsUnique ==
    (/\ parse_result.called
     /\ FlowOk
     /\ \A i \in 1..Len(StepsGiven.v) : ~DictHas(StepsGiven.v[i], "step_id")) =>
        /\ ~parse_result.outcome.raised
        /\ \A i \in 1..Len(StepsGiven.v) :
               /\ parse_result.outcome.value.steps[i].step_id.t = "str"
               /\ \A j \in 1..Len(StepsGiven.v) :
                      i # j => parse_result.outcome.value.steps[i].step_id
                                   # parse_result.outcome.value.steps[j].step_id

(***************************************************************************)
(* Properties of the evaluation of a written rule, checked under SpecRule, *)
(* and of _compare_values, checked under SpecCompare.                      *)
(***************************************************************************)
\* `item in actual` for every, and for some, item of the expected list: a
\* case-insensitive substring test on a str, membership in a list.
Present(item, actual) ==
    IF actual.t = "str" THEN IsSubstr(Lower(PyStrOf(item)), Lower(actual.v))
    ELSE PyIn(item, actual.v)

Supported(actual, expected) == expected.t = "list" /\ actual.t \in {"str", "list"}

\* C13: a rule written with contains_all evaluates to true exactly when the
\* expected value is a list, the actual value a str or a list, and every
\* item of the expected list is present in the actual value (so for the
\* empty expected list on every str and list); one written with contains_any
\* likewise with some item.
C13_ContainsAllAny ==
    cmp.called =>
        /\ ("written" \in DOMAIN cmp /\ cmp.written = "contains_all") =>
               cmp.outcome.value =
                   (/\ Supported(cmp.actual, cmp.expected)
                    /\ \A i \in 1..Len(cmp.expected.v) :
                           Present(cmp.expected.v[i], cmp.actual))
        /\ ("written" \in DOMAIN cmp /\ cmp.written = "contains_any") =>
               cmp.outcome.value =
                   (/\ Supported(cmp.actual, cmp.expected)
                    /\ \E i \in 1..Len(cmp.expected.v) :
                           Present(cmp.expected.v[i], cmp.actual))

NumericOperators == {"GREATER_THAN", "LESS_THAN", "GREATER_EQUAL", "LESS_EQUAL"}

\* C14: _compare_values with GREATER_THAN, LESS_THAN, GREATER_EQUAL or
\* LESS_EQUAL returns the comparison (>, <, >=, <=) of the two values when
\* both are numbers, and false when either side is None or otherwise cannot
\* be read as a number.
C14_NumericOperators ==
    (cmp.called /\ cmp.operator \in NumericOperators) =>
        /\ (cmp.actual.t = "num" /\ cmp.expected.t = "num") =>
               cmp.outcome.value =
                   CASE cmp.operator = "GREATER_THAN" -> cmp.actual.v > cmp.expected.v
                     [] cmp.operator = "LESS_THAN" -> cmp.actual.v < cmp.expected.v
                     [] cmp.operator = "GREATER_EQUAL" -> cmp.actual.v >= cmp.expected.v
                     [] cmp.operator = "LESS_EQUAL" -> cmp.actual.v <= cmp.expected.v
        /\ (FloatOf(cmp.actual).raised \/ FloatOf(cmp.expected).raised) =>
               cmp.outcome.value = FALSE

(***************************************************************************)
(* Properties of merge_flows, checked under SpecMerge.                     *)
(***************************************************************************)
BaseSteps == merge.base_flow.steps

OverrideSteps == merge.override_flow.steps

\* Whether a step of the base flow, and of the override, has this step_id.
InBase(step_id) == \E i \in 1..Len(BaseSteps) : BaseSteps[i].step_id = step_id

InOverride(step_id) == \E j \in 1..Len(OverrideSteps) : OverrideSteps[j].step_id = step_id

\* The positions of the override steps whose step_id no base step has, and
\* those of them that are the first with their step_id.
Unmatched ==
    SelectSeq([j \in 1..Len(OverrideSteps) |-> j],
              LAMBDA j : ~InBase(OverrideSteps[j].step_id))

FirstUnmatched ==
    SelectSeq(Unmatched,
              LAMBDA j : \A q \in 1..(j - 1) :
                             OverrideSteps[q].step_id # OverrideSteps[j].step_id)

\* The last override step with this step_id.
LastOverride(step_id) ==
    OverrideSteps[CHOOSE j \in 1..Len(OverrideSteps) :
                      /\ OverrideSteps[j].step_id = step_id
                      /\ \A q \in (j + 1)..Len(OverrideSteps) :
                             OverrideSteps[q].step_id # step_id]

\* The statement of C17 as the specification words it: every base step that
\* has a namesake in the override is replaced by it, every override step
\* without a namesake in the base is appended, in override order.
C17_MergeSteps ==
    merge.called =>
        /\ Len(merge.result.steps) = Len(BaseSteps) + Len(Unmatched)
        /\ \A i \in 1..Len(BaseSteps) :
               IF InOverride(BaseSteps[i].step_id)
               THEN \E j \in 1..Len(OverrideSteps) :
                        /\ OverrideSteps[j].step_id = BaseSteps[i].step_id
                        /\ merge.result.steps[i] = OverrideSteps[j]
               ELSE merge.result.steps[i] = BaseSteps[i]
        /\ \A k \in 1..Len(Unmatched) :
               merge.result.steps[Len(BaseSteps) + k] = OverrideSteps[Unmatched[k]]

\* C17, amended: the steps of merge_flows(base, override) are the base steps
\* in their positions, the first base step with a given step_id replaced by
\* the last override step with that step_id when the override has one and
\* every other base step kept, followed by one step for each distinct
\* override step_id that no base step has, in the order of first occurrence
\* in the override: the last override step with that step_id.  The result
\* has len(base.steps) plus the number of such distinct step_ids.
C17_MergeStepsAmended ==
    merge.called =>
        /\ Len(merge.result.steps) = Len(BaseSteps) + Len(FirstUnmatched)
        /\ \A i \in 1..Len(BaseSteps) :
               IF /\ InOverride(BaseSteps[i].step_id)
                  /\ \A q \in 1..(i - 1) : BaseSteps[q].step_id # BaseSteps[i].step_id
               THEN merge.result.steps[i] = LastOverride(BaseSteps[i].step_id)
               ELSE merge.result.steps[i] = BaseSteps[i]
        /\ \A k \in 1..Len(FirstUnmatched) :
               merge.result.steps[Len(BaseSteps) + k] =
                   LastOverride(OverrideSteps[FirstUnmatched[k]].step_id)

\* Base steps a, b merged with override steps b, c: a kept, b replaced in
\* place, c appended.
C17_Witness ==
    /\ merge.called
    /\ Len(BaseSteps) = 2
    /\ Len(OverrideSteps) = 2
    /\ BaseSteps[1].step_id # BaseSteps[2].step_id
    /\ OverrideSteps[1].step_id = BaseSteps[2].step_id
    /\ ~InBase(OverrideSteps[2].step_id)
    /\ merge.result.steps = <<BaseSteps[1], OverrideSteps[1], OverrideSteps[2]>>

\* An override with no steps, no global rules and every other field empty
\* or absent (an absent language_code is the default 'en').
EmptyOverride ==
    /\ Len(OverrideSteps) = 0
    /\ Len(merge.override_flow.global_validation_rules) = 0
    /\ ~Truthy(merge.override_flow.flow_id)
    /\ ~Truthy(merge.override_flow.flow_name)
    /\ ~Truthy(merge.override_flow.description)
    /\ ~Truthy(merge.override_flow.agent_id)
    /\ merge.override_flow.language_code \in {PyStr(<<>>), PyStr(<<"e", "n">>)}
    /\ ~Truthy(merge.override_flow.success_criteria)
    /\ ~Truthy(merge.override_flow.metadata)

\* The statement of C18 as the specification words it: merging an empty
\* override into a flow yields that flow, equal in every field.
C18_RoundTrip ==
    (merge.called /\ EmptyOverride) => merge.result = merge.base_flow

\* C18, amended: merge_flows(F, emptyOverride) equals F in description,
\* agent_id, steps, global rules, success_criteria and metadata, and has the
\* flow_id, the flow_name and the language_code of the override.
C18_RoundTripAmended ==
    (merge.called /\ EmptyOverride) =>
        /\ merge.result.description = merge.base_flow.description
        /\ merge.result.agent_id = merge.base_flow.agent_id
        /\ merge.result.steps = merge.base_flow.steps
        /\ merge.result.global_validation_rules = merge.base_flow.global_validation_rules
        /\ merge.result.success_criteria = merge.base_flow.success_criteria
        /\ merge.result.metadata = merge.base_flow.metadata
        /\ merge.result.flow_id = merge.override_flow.flow_id
        /\ merge.result.flow_name = merge.override_flow.flow_name
        /\ merge.result.language_code = merge.override_flow.language_code

\* A flow with every field set and two steps, merged with an empty override:
\* the description and the steps are those of the flow, the flow_id is not.
C18_Witness ==
    /\ merge.called
    /\ EmptyOverride
    /\ Truthy(merge.base_flow.flow_id)
    /\ Truthy(merge.base_flow.description)
    /\ Truthy(merge.base_flow.agent_id)
    /\ Len(BaseSteps) = 2
    /\ Len(merge.base_flow.global_validation_rules) = 1
    /\ merge.result.steps = BaseSteps
    /\ merge.result.description = merge.base_flow.description
    /\ merge.result.flow_id # merge.base_flow.flow_id

(***************************************************************************)
(* Properties of _extract_field_value, checked under SpecExtract.          *)
(***************************************************************************)
\* A bracketed path into the response messages that ends in the field text:
\* response_messages[*].text, response_messages[].text, response_messages[i].text.
TextPath ==
    /\ Len(extract.field_path) >= 5
    /\ extract.field_path[1] = "response_messages"
    /\ extract.field_path[2] = "["
    /\ extract.field_path[Len(extract.field_path)] = "text"
    /\ extract.field_path[Len(extract.field_path) - 1] = "."

IndexPath == TextPath /\ Len(extract.field_path) = 6 /\ IsDigit(extract.field_path[3])

MessagesGiven == DictGet(extract.data, "response_messages", PyList(<<>>)).v

\* The messages the path selects: the one at its index, or all of them.
Selected ==
    IF IndexPath
    THEN IF DigitVal(extract.field_path[3]) < Len(MessagesGiven)
         THEN <<MessagesGiven[DigitVal(extract.field_path[3]) + 1]>>
         ELSE <<>>
    ELSE MessagesGiven

\* The values the path reaches: the text of every selected message with one.
Reached ==
    LET with == SelectSeq(Selected, LAMBDA m : DictHas(m, "text"))
    IN  [i \in 1..Len(with) |-> DictGet(with[i], "text", PyNone)]

\* The values stringified and joined by single spaces.
RECURSIVE Joined(_)
Joined(values) ==
    IF Len(values) = 0 THEN <<>>
    ELSE IF Len(values) = 1 THEN PyStrOf(values[1])
    ELSE PyStrOf(values[1]) \o <<" ">> \o Joined(Tail(values))

C20_IndexKeepsCase ==
    (/\ extract.called
     /\ extract.field_path = <<"response_messages", "[", "0", "]", ".", "text">>
     /\ Len(MessagesGiven) > 0
     /\ DictGet(MessagesGiven[1], "text", PyNone).t = "str") =>
        extract.result = DictGet(MessagesGiven[1], "text", PyNone)

ParametersGiven == DictGet(extract.data, "parameters", PyDict(<<>>))

\* C21: on a record whose parameters are a mapping, or that has none, the
\* bare path parameters yields the collection of the keys of the mapping
\* (empty when there are no parameters) and not the mapping; the path
\* parameters.email yields the value stored under email.
C21_ParameterKeys ==
    (extract.called /\ ParametersGiven.t = "dict") =>
        /\ extract.field_path = <<"parameters">> =>
               /\ extract.result.t = "list"
               /\ Len(extract.result.v) = Len(ParametersGiven.v)
               /\ {extract.result.v[i] : i \in 1..Len(extract.result.v)}
                      = {PyStr(CharsOf(ParametersGiven.v[i][1])) :
                             i \in 1..Len(ParametersGiven.v)}
        /\ (extract.field_path = <<"parameters", ".", "email">>
                /\ DictHas(ParametersGiven, "email")) =>
               extract.result = DictGet(ParametersGiven, "email", PyNone)

\* The bare path on the parameters name and email: the two keys.
C21_Witness ==
    /\ extract.called
    /\ extract.field_path = <<"parameters">>
    /\ Len(ParametersGiven.v) = 2
    /\ extract.result = PyList(<<PyStr(<<"n", "a", "m", "e">>),
                                 PyStr(<<"e", "m", "a", "i", "l">>)>>)

\* C22: the aliases response_messages and response_text yield what
\* response_messages[*].text yields on the same record, the texts joined and
\* lower-cased (or None), never the list of the messages.
C22_AliasEquivalent ==
    (extract.called /\ extract.field_path \in {<<"response_messages">>, <<"response_text">>}) =>
        /\ extract.result =
               _extract_field_value(extract.data,
                                    <<"response_messages", "[", "*", "]", ".", "text">>)
        /\ extract.result.t \in {"str", "none"}

\* The alias response_messages on the two texts: one lower-cased string.
C22_Witness ==
    /\ extract.called
    /\ extract.field_path = <<"response_messages">>
    /\ Len(MessagesGiven) = 2
    /\ extract.result.t = "str"
    /\ JoinChars(extract.result.v) = "hello there! i can help with billing."

\* The path of the call has a bracket, so that it is extracted segment by
\* segment.
Bracketed == \E i \in 1..Len(extract.field_path) : extract.field_path[i] = "["

\* What one segment keeps of one item of the working set: a field keeps the
\* value under its key in a mapping, an index keeps the element at it in a
\* sequence, a wildcard keeps every element of a sequence and any other
\* item as it is.
KeptOf(segment, item) ==
    CASE segment.type = "field" ->
           IF item.t = "dict" /\ DictGet(item, segment.name, PyNone) # PyNone
           THEN <<DictGet(item, segment.name, PyNone)>>
           ELSE <<>>
      [] segment.type = "array_index" ->
           IF item.t = "list" /\ segment.index_value \in 0..(Len(item.v) - 1)
           THEN <<item.v[segment.index_value + 1]>>
           ELSE <<>>
      [] segment.type = "array_wildcard" ->
           IF item.t = "list" THEN item.v ELSE <<item>>

RECURSIVE KeptOfAll(_, _)
KeptOfAll(segment, items) ==
    IF Len(items) = 0 THEN <<>>
    ELSE KeptOf(segment, items[1]) \o KeptOfAll(segment, Tail(items))

\* The working set after the first n segments of the path.
RECURSIVE Working(_)
Working(n) ==
    IF n = 0 THEN <<extract.data>>
    ELSE KeptOfAll(_parse_array_path(extract.field_path)[n], Working(n - 1))

WorkingSet == Working(Len(_parse_array_path(extract.field_path)))

\* C26: the extraction yields a value for every record and every path; along
\* a bracketed path a field drops the items that are no mapping or lack its
\* key, an index drops the items that are no sequence or are too short, a
\* wildcard flattens the sequences by one level and keeps the other items;
\* when nothing remains the result is None.
C26_ExtractionDropsSilently ==
    extract.called =>
        /\ extract.result.t \in {"none", "bool", "num", "str", "list", "dict"}
        /\ Bracketed =>
               /\ ApplySegments(_parse_array_path(extract.field_path), <<extract.data>>)
                      = WorkingSet
               /\ WorkingSet = <<>> => extract.result = PyNone

\* items[*].x on a list of two lists, a number and a mapping: the wildcard
\* spreads the four items, the field drops the three that are no mapping.
C26_Witness ==
    /\ extract.called
    /\ extract.field_path = <<"items", "[", "*", "]", ".", "x">>
    /\ DictHas(extract.data, "items")
    /\ Len(Working(2)) = 4
    /\ WorkingSet = <<PyNum(2)>>
    /\ extract.result = PyNum(2)

\* C27: a bracketed path that does not end in the field text yields None
\* when it reaches no value, the value itself when it reaches one, and the
\* list of the values in order when it reaches several.
C27_UnwrapSingle ==
    (extract.called /\ Bracketed /\ ~EndsWithText(extract.field_path)) =>
        extract.result =
            IF Len(WorkingSet) = 0 THEN PyNone
            ELSE IF Len(WorkingSet) = 1 THEN WorkingSet[1]
            ELSE PyList(WorkingSet)

\* items[0] reaches one value, the list [1, 2], which is the result itself.
C27_Witness ==
    /\ extract.called
    /\ extract.field_path = <<"items", "[", "0", "]">>
    /\ Len(WorkingSet) = 1
    /\ extract.result = PyList(<<PyNum(1), PyNum(2)>>)

(***************************************************************************)
(* Properties of two interleaved runs, checked under SpecPair.             *)
(***************************************************************************)
\* The steps and the validation results of a returned result are those of
\* the first steps of its own flow, in the order of the flow.
OwnSteps(f, result) ==
    /\ Len(result.steps) <= Len(f.steps)
    /\ Len(result.validation_results) <= Len(result.steps)
    /\ \A i \in 1..Len(result.steps) :
           DictGet(result.steps[i], "step_id", PyNone) = f.steps[i].step_id
    /\ \A i \in 1..Len(result.validation_results) :
           result.validation_results[i].step_id = f.steps[i].step_id

\* success, stopped_early and stop_reason follow from the outcomes of the
\* result's own steps.
OwnOutcome(f, result) ==
    /\ result.stopped_early <=>
           \E i \in 1..Len(result.validation_results) :
               result.validation_results[i].should_stop
    /\ result.success <=>
           /\ ~result.has_error
           /\ ~result.stopped_early
           /\ \A i \in 1..Len(result.validation_results) :
                  result.validation_results[i].passed
    /\ result.stop_reason =
           IF result.stopped_early
           THEN <<"Critical assertion failed in step: ",
                  f.steps[Len(result.steps)].step_id>>
           ELSE PyNone

\* C23: of two runs interleaved at their suspension points, each returns a
\* result whose steps and validation results are those of its own flow, in
\* that flow's order, and whose success, stopped_early and stop_reason
\* follow from its own steps alone.
C23_RunsDoNotInterfere ==
    /\ (other.run # 0 /\ pc = "done") =>
           OwnSteps(flow, flow_result) /\ OwnOutcome(flow, flow_result)
    /\ (other.run # 0 /\ other.pc = "done") =>
           OwnSteps(other.flow, other.flow_result)
               /\ OwnOutcome(other.flow, other.flow_result)

\* Both runs have returned.  The second run created its session and made
\* its first step before the first run's only step, which stopped the first
\* run; the second run then made its second step and went through.
C23_Witness ==
    /\ other.run = 1
    /\ pc = "done"
    /\ other.pc = "done"
    /\ Len(other.flow_result.steps) = 1
    /\ Len(flow_result.steps) = 2
    /\ other.flow_result.stopped_early
    /\ ~flow_result.stopped_early
    /\ ~flow_result.has_error
    /\ session_log = <<"create", "create", "update", "update", "end",
                       "update", "end">>

====
